---- MODULE Spec2Model ----
(***************************************************************************)
(* Retrieval and answer selection of the quiz assistant: the dense         *)
(* (vector index) handlers of api/analyze-enhanced.js (second half),       *)
(* api/analyze-v4-rag.js and api/analyze-v4-rag.back-03.js, and the        *)
(* lexical handler of api/analyze-enhanced.js (first half).                *)
(*                                                                         *)
(* Texts.  A completion reply is a sequence of characters.  A retrieved    *)
(* passage or a context is a sequence of blocks [id, len]: block id stands *)
(* for len consecutive characters of one passage, so that lengths add up   *)
(* and cuts fall where substring() puts them.  A question or option text   *)
(* is a sequence of words.                                                 *)
(***************************************************************************)
EXTENDS Integers, Sequences, FiniteSets, TLC

VARIABLES
    \* one call of analyzeQuestionWithRAG
    aQuestion, aContext, aOutcome, aVariant, aPc, aResult,
    \* one call of searchKnowledge
    sPc, sOptionsOk, sEmbedding, sQuery, sMatches, sQueries, sContext, sThrown, sFallback,
    \* one POST request to a dense handler
    dVariant, dWellFormed, dEntries, dIndexEmpty, dPc, dQuestions, dIdx, dContext,
    dResults, dLog, dStatus, dBody,
    \* one POST request to the lexical handler, and the caches of its process
    lData, lBlocks, lPc, lSearchIndexCache, lIdfScoresCache, lQuestions, lSearchResults,
    lRows, lLog, lStatus, lBody,
    \* one call of callClaudeWithRetry
    rMaxRetries, rState,
    \* the requests of one process of the lexical handler and its caches
    cPc, cData, cPending, cEnhancedDataCache, cSearchIndexCache, cIdfScoresCache,
    cIndexBuilds, cIndexWrites, cIdfBuilds, cIdfWrites,
    \* one confidence recorded by a dense handler
    kVariant, kPath, kContext, kConfidence, kPc,
    \* one assembly of the context of the lexical analysis prompt
    xVariant, xResults, xPassages, xContext, xPc,
    \* two successive calls of optimizedSearch on one corpus
    oQuestions, oChunks, oIndex, oIdf, oCalls,
    \* one call of extractKeywordsFromQuestion
    gVariant, gQuestion, gKeywords, gPc,
    \* one index built from a corpus and one call of searchWithIndex
    iChunks, iKeywords, iIndex, iFound, iPc,
    \* one request to the cached-answer lexical handler
    hBlocks, hQuestions, hResults, hScored, hPrompted, hReply, hFinal, hStatus, hPc

analyzeVars == <<aQuestion, aContext, aOutcome, aVariant, aPc, aResult>>
searchVars == <<sPc, sOptionsOk, sEmbedding, sQuery, sMatches, sQueries, sContext, sThrown, sFallback>>
denseVars == <<dVariant, dWellFormed, dEntries, dIndexEmpty, dPc, dQuestions, dIdx, dContext,
               dResults, dLog, dStatus, dBody>>
lexVars == <<lData, lBlocks, lPc, lSearchIndexCache, lIdfScoresCache, lQuestions, lSearchResults,
             lRows, lLog, lStatus, lBody>>
retryVars == <<rMaxRetries, rState>>
cacheVars == <<cPc, cData, cPending, cEnhancedDataCache, cSearchIndexCache, cIdfScoresCache,
               cIndexBuilds, cIndexWrites, cIdfBuilds, cIdfWrites>>
confidenceVars == <<kVariant, kPath, kContext, kConfidence, kPc>>
contextVars == <<xVariant, xResults, xPassages, xContext, xPc>>
optimizedVars == <<oQuestions, oChunks, oIndex, oIdf, oCalls>>
keywordVars == <<gVariant, gQuestion, gKeywords, gPc>>
indexVars == <<iChunks, iKeywords, iIndex, iFound, iPc>>
answersVars == <<hBlocks, hQuestions, hResults, hScored, hPrompted, hReply, hFinal, hStatus, hPc>>
vars == <<analyzeVars, searchVars, denseVars, lexVars,
          retryVars, cacheVars, confidenceVars, contextVars,
          optimizedVars, keywordVars, indexVars, answersVars>>

\* what a call of one function, or one request, leaves alone
notAnalyze == <<searchVars, denseVars, lexVars, retryVars, cacheVars, confidenceVars, contextVars,
    optimizedVars,
    keywordVars,
    indexVars,
    answersVars>>
notSearch == <<analyzeVars, denseVars, lexVars, retryVars, cacheVars, confidenceVars, contextVars,
    optimizedVars,
    keywordVars,
    indexVars,
    answersVars>>
notDense == <<analyzeVars, searchVars, lexVars, retryVars, cacheVars, confidenceVars, contextVars,
    optimizedVars,
    keywordVars,
    indexVars,
    answersVars>>
notLex == <<analyzeVars, searchVars, denseVars, retryVars, cacheVars, confidenceVars, contextVars,
    optimizedVars,
    keywordVars,
    indexVars,
    answersVars>>
notCache == <<analyzeVars, searchVars, denseVars, lexVars, retryVars, confidenceVars, contextVars,
    optimizedVars,
    keywordVars,
    indexVars,
    answersVars>>
notConfidence == <<analyzeVars, searchVars, denseVars, lexVars, retryVars, cacheVars, contextVars,
    optimizedVars,
    keywordVars,
    indexVars,
    answersVars>>
notRetry == <<analyzeVars, searchVars, denseVars, lexVars, cacheVars, confidenceVars, contextVars,
    optimizedVars,
    keywordVars,
    indexVars,
    answersVars>>
notContext == <<analyzeVars, searchVars, denseVars, lexVars, retryVars, cacheVars, confidenceVars,
    optimizedVars,
    keywordVars,
    indexVars,
    answersVars>>
notOptimized == <<analyzeVars, searchVars, denseVars, lexVars, retryVars, cacheVars, confidenceVars, contextVars,
    keywordVars,
    indexVars,
    answersVars>>
notKeywords == <<analyzeVars, searchVars, denseVars, lexVars, retryVars, cacheVars, confidenceVars, contextVars, optimizedVars,
    indexVars,
    answersVars>>
notIndex == <<analyzeVars, searchVars, denseVars, lexVars, retryVars, cacheVars, confidenceVars, contextVars, optimizedVars, keywordVars,
    answersVars>>
notAnswers == <<analyzeVars, searchVars, denseVars, lexVars, retryVars, cacheVars, confidenceVars, contextVars, optimizedVars, keywordVars, indexVars>>

Letters == {"A", "B", "C", "D"}

(***************************************************************************)
(* Character strings: String.prototype.trim, toUpperCase, match(/[ABCD]/). *)
(***************************************************************************)
Whitespace == {" ", "\n"}

RECURSIVE TrimStart(_)
TrimStart(s) ==
    IF s = <<>> THEN <<>>
    ELSE IF Head(s) \in Whitespace THEN TrimStart(Tail(s)) ELSE s

RECURSIVE TrimEnd(_)
TrimEnd(s) ==
    IF s = <<>> THEN <<>>
    ELSE IF s[Len(s)] \in Whitespace THEN TrimEnd(SubSeq(s, 1, Len(s) - 1)) ELSE s

trim(s) == TrimEnd(TrimStart(s))

UpperChar(c) ==
    CASE c = "a" -> "A"
      [] c = "b" -> "B"
      [] c = "c" -> "C"
      [] c = "d" -> "D"
      [] c = "n" -> "N"
      [] OTHER -> c

toUpperCase(s) == [i \in 1..Len(s) |-> UpperChar(s[i])]

\* answer.match(/[ABCD]/): the positions of the text that hold A, B, C or D
MatchPositions(s) == {i \in 1..Len(s) : s[i] \in Letters}

HasMatch(s) == MatchPositions(s) # {}

\* match[0]: the first such character
FirstMatch(s) == s[CHOOSE i \in MatchPositions(s) : \A j \in MatchPositions(s) : i <= j]

(***************************************************************************)
(* Block strings: length, substring(0, n), join.                           *)
(***************************************************************************)
RECURSIVE StrLen(_)
StrLen(s) == IF s = <<>> THEN 0 ELSE Head(s).len + StrLen(Tail(s))

RECURSIVE Substring(_, _)
Substring(s, n) ==
    IF s = <<>> \/ n <= 0 THEN <<>>
    ELSE IF Head(s).len <= n
         THEN <<Head(s)>> \o Substring(Tail(s), n - Head(s).len)
         ELSE <<[id |-> Head(s).id, len |-> n]>>

Separator == <<[id |-> "sep", len |-> 2]>>

\* Array.prototype.join('\n\n')
RECURSIVE Join(_)
Join(texts) ==
    IF texts = <<>> THEN <<>>
    ELSE IF Len(texts) = 1 THEN Head(texts)
    ELSE Head(texts) \o Separator \o Join(Tail(texts))

(***************************************************************************)
(* Word strings: toLowerCase and String.prototype.includes on phrases.     *)
(***************************************************************************)
LowerWord(w) ==
    CASE w = "Tutte" -> "tutte"
      [] w = "Nessuna" -> "nessuna"
      [] OTHER -> w

toLowerCase(ws) == [i \in 1..Len(ws) |-> LowerWord(ws[i])]

includes(ws, phrase) ==
    \E i \in 1..(Len(ws) - Len(phrase) + 1) : SubSeq(ws, i, i + Len(phrase) - 1) = phrase

RECURSIVE Flatten(_)
Flatten(seqs) == IF seqs = <<>> THEN <<>> ELSE Head(seqs) \o Flatten(Tail(seqs))

\* Object.values(options)
Values(options) == [i \in 1..Len(options) |-> options[i].v]

\* Object.keys(options)
Keys(options) == [i \in 1..Len(options) |-> options[i].k]

(***************************************************************************)
(* Questions.  A question is null (a null entry of the extracted list) or  *)
(* an object; number 0 stands for a missing number, the empty text for a   *)
(* missing or empty text, hasOptions = FALSE for a missing options object. *)
(* options lists the entries of the options object in insertion order.     *)
(***************************************************************************)
Plain == <<"opzione">>
Tutte == <<"Tutte", "le", "precedenti">>
Nessuna == <<"nessuna", "delle", "precedenti">>
Risposte == <<"tutte", "le", "risposte">>
Markers == {Tutte, Nessuna, Risposte}

Opt(k, v) == [k |-> k, v |-> v]

FourOptions(a, b, c, d) == <<Opt("A", a), Opt("B", b), Opt("C", c), Opt("D", d)>>

OptionLists ==
    {FourOptions(Plain, Plain, Plain, Plain)}
    \cup {FourOptions(m, Plain, Plain, Plain) : m \in Markers}
    \cup {FourOptions(Plain, Plain, m, Plain) : m \in Markers}
    \cup {FourOptions(Plain, Plain, Plain, m) : m \in Markers}
    \cup {<<Opt("A", Plain), Opt("B", Plain)>>, <<Opt("A", Plain)>>, <<>>}

QuestionText == <<"domanda">>

Question(n, t, o) == [isNull |-> FALSE, number |-> n, text |-> t, hasOptions |-> TRUE, options |-> o]

NullQuestion == [isNull |-> TRUE, number |-> 0, text |-> <<>>, hasOptions |-> FALSE, options |-> <<>>]

NoOptionsQuestion(n, t) == [isNull |-> FALSE, number |-> n, text |-> t, hasOptions |-> FALSE, options |-> <<>>]

(***************************************************************************)
(* analyzeQuestionWithRAG(question, context).                              *)
(* outcome is what openaiClient.chat.completions.create does: it throws,   *)
(* or resolves to a response without message content, or with a content    *)
(* that is not a string, or with a text.  rnd is Math.random() > 0.5.      *)
(* The result tells the value returned, whether an exception left the      *)
(* function, how many completion requests were issued and with which       *)
(* prompt.                                                                 *)
(***************************************************************************)
MinContextLength == 50
PromptContextBudget == 2000

NoPrompt == [kind |-> "none", context |-> <<>>]

\* a test that would take a context of exactly 50 characters as informative
BuildPromptFrom50(context) ==
    IF context.isString /\ StrLen(context.str) >= MinContextLength
    THEN [kind |-> "grounded", context |-> Substring(context.str, PromptContextBudget)]
    ELSE [kind |-> "reasoning", context |-> <<>>]

\* context && context.length > 50 ? grounded prompt : reasoning-only prompt
BuildPrompt(context) ==
    IF context.isString /\ StrLen(context.str) > MinContextLength
    THEN [kind |-> "grounded", context |-> Substring(context.str, PromptContextBudget)]
    ELSE [kind |-> "reasoning", context |-> <<>>]

\* question.text and Object.entries(question.options) in the prompt template
PromptThrows(question) == question.isNull \/ ~question.hasOptions

\* response?.choices?.[0]?.message?.content?.trim().toUpperCase() || 'B'
AnswerText(outcome) ==
    IF outcome.kind = "text" /\ trim(outcome.content) # <<>>
    THEN toUpperCase(trim(outcome.content))
    ELSE <<"B">>

\* the heuristic of analyze-enhanced.js after a reply without a letter
Heuristic(question, rnd) ==
    LET optionsText == toLowerCase(Flatten(Values(question.options)))
    IN  IF includes(optionsText, toLowerCase(Tutte)) \/ includes(optionsText, Risposte)
        THEN "D"
        ELSE IF includes(optionsText, Nessuna)
        THEN "D"
        ELSE IF rnd THEN "B" ELSE "C"

\* the superseded behaviour: no letter found, no answer given
NoLetterNotAvailable(variant, question, rnd) == "N/A"

\* what the function returns for a reply in which match(/[ABCD]/) finds nothing
NoLetterAnswer(variant, question, rnd) ==
    IF variant = "enhanced" THEN Heuristic(question, rnd) ELSE "B"

\* the catch block of the function
CatchAnswer == "B"

Returned(answer, requests, prompt) ==
    [answer |-> answer, threw |-> FALSE, requests |-> requests, prompt |-> prompt]

Thrown(requests, prompt) ==
    [answer |-> "none", threw |-> TRUE, requests |-> requests, prompt |-> prompt]

\* the one prompt of the first version: ${context || 'Nessun contesto disponibile'}
ExclusivePrompt(context) ==
    [kind |-> "exclusive", context |-> IF context.isString THEN context.str ELSE <<>>]

\* response?.choices?.[0]?.message?.content?.trim().toUpperCase() || 'N/A'
StrictAnswerText(outcome) ==
    IF outcome.kind = "text" /\ trim(outcome.content) # <<>>
    THEN toUpperCase(trim(outcome.content))
    ELSE <<"N/A">>

\* answer.match(/^[ABCD]$/) ? answer : 'N/A'
ExactAnswer(answer) ==
    IF Len(answer) = 1 /\ answer[1] \in Letters THEN answer[1] ELSE "N/A"

\* the body of the first version (analyze-v4-rag - Copy.js), which has no try block
AnalyzeStrict(question, context, outcome) ==
    IF PromptThrows(question)
    THEN Thrown(0, NoPrompt)
    ELSE LET prompt == ExclusivePrompt(context)
         IN  IF outcome.kind \in {"throw", "nonstring"}
             THEN Thrown(1, prompt)
             ELSE Returned(ExactAnswer(StrictAnswerText(outcome)), 1, prompt)

\* the body of the try block: it returns, or an exception leaves it
AnalyzeTry(variant, question, context, outcome, rnd) ==
    IF PromptThrows(question)
    THEN Thrown(0, NoPrompt)
    ELSE LET prompt == BuildPrompt(context)
         IN  IF outcome.kind \in {"throw", "nonstring"}
             THEN Thrown(1, prompt)
             ELSE LET answer == AnswerText(outcome)
                  IN  IF HasMatch(answer)
                      THEN Returned(FirstMatch(answer), 1, prompt)
                      ELSE Returned(NoLetterAnswer(variant, question, rnd), 1, prompt)

\* catch (error) { return 'B' }
AnalyzeCatch(r) == Returned(CatchAnswer, r.requests, r.prompt)

analyzeQuestionWithRAG(variant, question, context, outcome, rnd) ==
    IF variant = "copy"
    THEN AnalyzeStrict(question, context, outcome)
    ELSE LET r == AnalyzeTry(variant, question, context, outcome, rnd)
         IN  IF r.threw THEN AnalyzeCatch(r) ELSE r

(***************************************************************************)
(* Inputs of one call of analyzeQuestionWithRAG.                           *)
(***************************************************************************)
MaxReplyLen == 3

Chars == {"a", "B", "d", "x", " ", "."}

RECURSIVE Texts(_)
Texts(n) ==
    IF n = 0 THEN {<<>>}
    ELSE LET shorter == Texts(n - 1)
         IN  shorter \cup {Append(t, c) : t \in {u \in shorter : Len(u) = n - 1}, c \in Chars}

Outcomes ==
    {[kind |-> k, content |-> <<>>] : k \in {"throw", "nocontent", "nonstring"}}
    \cup {[kind |-> "text", content |-> t] : t \in Texts(MaxReplyLen)}

Passage(id, n) == IF n = 0 THEN <<>> ELSE <<[id |-> id, len |-> n]>>

StringContext(s) == [isString |-> TRUE, str |-> s]
NoContext == [isString |-> FALSE, str |-> <<>>]

AnalyzeContexts ==
    {NoContext}
    \cup {StringContext(Passage("p1", n)) :
            n \in {0, MinContextLength, MinContextLength + 1, PromptContextBudget + 1}}

AnalyzeQuestions ==
    {Question(1, QuestionText, o) : o \in OptionLists}
    \cup {NullQuestion, NoOptionsQuestion(1, QuestionText)}

\* the copies that wrap their body in try / catch
HardenedVariants == {"enhanced", "back03"}

AnalyzeVariants == HardenedVariants \cup {"copy"}

NoResult == [answer |-> "none", threw |-> FALSE, requests |-> 0, prompt |-> NoPrompt]

InitAnalyze ==
    /\ aQuestion \in AnalyzeQuestions
    /\ aContext \in AnalyzeContexts
    /\ aOutcome \in Outcomes
    /\ aVariant \in AnalyzeVariants
    /\ aPc = "call"
    /\ aResult = NoResult

Analyze ==
    /\ aPc = "call"
    /\ \E rnd \in BOOLEAN :
         aResult' = analyzeQuestionWithRAG(aVariant, aQuestion, aContext, aOutcome, rnd)
    /\ aPc' = "returned"
    /\ UNCHANGED <<aQuestion, aContext, aOutcome, aVariant>>
    /\ UNCHANGED notAnalyze


(***************************************************************************)
(* searchKnowledge(questionText, options), the lenient and hardened form   *)
(* shared by analyze-enhanced.js, analyze-v4-rag.js, its back-03 and       *)
(* bck-05 copies.  A score is in hundredths (0.35 is 35).  The similarity  *)
(* query answers with its candidates in descending score order.            *)
(***************************************************************************)
ScoreThreshold == 35
FallbackCount == 3

Min(a, b) == IF a <= b THEN a ELSE b

\* .map(m => m.metadata?.text || '').filter(text => text.length > 0).join('\n\n')
JoinTexts(matches) ==
    LET texts == [i \in 1..Len(matches) |-> matches[i].text]
    IN  Join(SelectSeq(texts, LAMBDA t : StrLen(t) > 0))

\* the mutant's cutoff: the strict threshold of the first revision
StrictAboveThreshold(m) == m.score > 70

\* m.score > 0.35
AboveThreshold(m) == m.score > ScoreThreshold

\* results.matches.filter(m => m.score > 0.35) ... .join('\n\n')
LenientContext(matches) == JoinTexts(SelectSeq(matches, AboveThreshold))

\* the mutant's fallback: the two best candidates only
TopTwo(matches) == SubSeq(matches, 1, Min(2, Len(matches)))

\* results.matches.slice(0, 3)
TopRaw(matches) == SubSeq(matches, 1, Min(FallbackCount, Len(matches)))

\* if (!context && results.matches.length > 0)
UsesFallback(matches) == LenientContext(matches) = <<>> /\ Len(matches) > 0

SearchContext(matches) ==
    IF UsesFallback(matches) THEN JoinTexts(TopRaw(matches)) ELSE LenientContext(matches)

\* the mutant's catch block: the error goes on to the caller
SearchRethrow == [context |-> <<>>, thrown |-> TRUE]

\* catch (error) { console.error(...); return ''; }
SearchCatch == [context |-> <<>>, thrown |-> FALSE]

\* searchKnowledge as its callers see it: the context, whether an exception left
\* the function, and the requests it issued
searchKnowledge(optionsOk, embedding, query, matches) ==
    IF ~optionsOk
    THEN [context |-> SearchCatch.context, thrown |-> SearchCatch.thrown, embeds |-> 0, queries |-> 0]
    ELSE IF embedding = "throw"
    THEN [context |-> SearchCatch.context, thrown |-> SearchCatch.thrown, embeds |-> 1, queries |-> 0]
    ELSE IF embedding = "novector"
    THEN [context |-> <<>>, thrown |-> FALSE, embeds |-> 1, queries |-> 0]
    ELSE IF query \in {"throw", "nomatches"}
    THEN [context |-> SearchCatch.context, thrown |-> SearchCatch.thrown, embeds |-> 1, queries |-> 1]
    ELSE [context |-> SearchContext(matches), thrown |-> FALSE, embeds |-> 1, queries |-> 1]

(***************************************************************************)
(* The candidates a query may return: at most MaxMatches of them, scores   *)
(* descending, each with a text of its own or none.                        *)
(***************************************************************************)
MaxMatches == 4

Scores == {10, ScoreThreshold, ScoreThreshold + 1, 90}
TextLengths == {0, 60}

RankId(i) == <<"c1", "c2", "c3", "c4", "c5", "c6", "c7", "c8">>[i]

Candidate(i, score, n) == [score |-> score, text |-> Passage(RankId(i), n)]

MatchLists(lengths) ==
    UNION {
        {[i \in 1..k |-> Candidate(i, f[i][1], f[i][2])] :
            f \in {g \in [1..k -> Scores \X lengths] :
                     \A i \in 1..(k - 1) : g[i][1] >= g[i + 1][1]}}
        : k \in 0..MaxMatches}

InitSearch ==
    /\ sPc = "start"
    /\ sOptionsOk \in BOOLEAN
    /\ sEmbedding = "none"
    /\ sQuery = "none"
    /\ sMatches = <<>>
    /\ sQueries = 0
    /\ sContext = <<>>
    /\ sThrown = FALSE
    /\ sFallback = FALSE

SearchReturn(r) ==
    /\ sPc' = "returned"
    /\ sContext' = r.context
    /\ sThrown' = r.thrown
    /\ sQueries' = r.queries

\* Object.values(options) throws on a null options value, inside the try
SearchBadOptions ==
    /\ sPc = "start"
    /\ ~sOptionsOk
    /\ SearchReturn(searchKnowledge(FALSE, "none", "none", <<>>))
    /\ UNCHANGED <<sOptionsOk, sEmbedding, sQuery, sMatches, sFallback>>
    /\ UNCHANGED notSearch

\* await openaiClient.embeddings.create(...), then the check of the vector
SearchEmbed ==
    /\ sPc = "start"
    /\ sOptionsOk
    /\ \E outcome \in {"throw", "novector", "ok"} :
         /\ sEmbedding' = outcome
         /\ IF outcome = "ok"
            THEN sPc' = "query" /\ UNCHANGED <<sContext, sThrown, sQueries>>
            ELSE SearchReturn(searchKnowledge(TRUE, outcome, "none", <<>>))
    /\ UNCHANGED <<sOptionsOk, sQuery, sMatches, sFallback>>
    /\ UNCHANGED notSearch

\* await pineconeIndex.query(...), then the context
SearchQuery ==
    /\ sPc = "query"
    /\ \E outcome \in {"throw", "nomatches", "ok"} :
         /\ sQuery' = outcome
         /\ IF outcome = "ok"
            THEN sMatches' \in MatchLists(TextLengths)
            ELSE sMatches' = <<>>
         /\ sFallback' = (outcome = "ok" /\ UsesFallback(sMatches'))
         /\ SearchReturn(searchKnowledge(TRUE, "ok", outcome, sMatches'))
    /\ UNCHANGED <<sOptionsOk, sEmbedding>>
    /\ UNCHANGED notSearch

NextSearch == SearchBadOptions \/ SearchEmbed \/ SearchQuery

IdleSearch ==
    /\ sPc = "idle"
    /\ sOptionsOk = TRUE
    /\ sEmbedding = "none"
    /\ sQuery = "none"
    /\ sMatches = <<>>
    /\ sQueries = 0
    /\ sContext = <<>>
    /\ sThrown = FALSE
    /\ sFallback = FALSE

IdleAnalyze ==
    /\ aQuestion = NullQuestion
    /\ aContext = NoContext
    /\ aOutcome = [kind |-> "throw", content |-> <<>>]
    /\ aVariant = "enhanced"
    /\ aPc = "idle"
    /\ aResult = NoResult

(***************************************************************************)
(* The POST handlers of the dense strategy: "enhanced" is the handler of   *)
(* analyze-enhanced.js (v4-rag-fixed), "debug" the one of analyze-v4-rag.js *)
(* and "robust" the one of analyze-v4-rag.back-03.js.                      *)
(* dEntries is the list of questions the extraction reply describes and    *)
(* dWellFormed tells whether JSON.parse accepts the reply.                 *)
(***************************************************************************)
DenseVariants == {"enhanced", "debug", "robust"}

\* the analyzeQuestionWithRAG each handler file defines
AnalyzeVariantOf(variant) == IF variant = "enhanced" THEN "enhanced" ELSE "back03"

AllPlain == FourOptions(Plain, Plain, Plain, Plain)

Entry(kind, n) ==
    CASE kind = "two" -> Question(n, QuestionText, <<Opt("A", Plain), Opt("B", Plain)>>)
      [] kind = "one" -> Question(n, QuestionText, <<Opt("A", Plain)>>)
      [] kind = "noOptions" -> NoOptionsQuestion(n, QuestionText)
      [] kind = "noText" -> Question(n, <<>>, AllPlain)
      [] OTHER -> NullQuestion

EntryKinds == {"two", "one", "noOptions", "noText", "null"}

MaxQuestions == 2

Batches ==
    UNION {{[i \in 1..n |-> Entry(kinds[i], i)] : kinds \in [1..n -> EntryKinds]} : n \in 0..MaxQuestions}

\* the placeholder question of the parsers' last resort
DummyQuestion(variant) ==
    IF variant = "debug"
    THEN Question(1, <<"test">>, FourOptions(Plain, Plain, Plain, Tutte))
    ELSE Question(1, <<"impossibile">>, AllPlain)

\* what the regular expressions of the fallback parsers accept:
\* "number", a non-empty "text" and Object.keys(options).length >= 2
RegexAccepts(q) == ~q.isNull /\ q.text # <<>> /\ q.hasOptions /\ Len(q.options) >= 2

\* parseQuestionsJSON / robustJSONParse / the JSON.parse of the fixed handler
ParseQuestions(variant, wellFormed, entries) ==
    IF wellFormed
    THEN [ok |-> TRUE, questions |-> entries, parser |-> "json"]
    ELSE IF variant = "enhanced"
    THEN [ok |-> FALSE, questions |-> <<>>, parser |-> "none"]
    ELSE LET found == SelectSeq(entries, RegexAccepts)
         IN  IF found # <<>>
             THEN [ok |-> TRUE, questions |-> found, parser |-> "regex"]
             ELSE [ok |-> TRUE, questions |-> <<DummyQuestion(variant)>>, parser |-> "dummy"]

\* questions.forEach((q, i) => console.log(... q.text?.substring(0, 50) ...))
LogThrows(variant, questions) ==
    variant = "enhanced" /\ \E i \in 1..Len(questions) : questions[i].isNull

\* reading question.text in the try block of the loop
LoopBodyThrows(q) == q.isNull

\* reading question.number in the catch block of the loop
LoopCatchThrows(q) == q.isNull

\* if (!question.text || !question.options) continue;
Skipped(variant, q) == variant = "robust" /\ (q.text = <<>> \/ ~q.hasOptions)

\* Math.floor(Math.random() * k), Math.random() in hundredths
Jitter(random, k) == (random * k) \div 100

Randoms == {0, 99}

\* a handler whose middle band starts at length 100
ConfidenceFrom100(variant, context, random) ==
    IF StrLen(context) > 500 THEN 85 + Jitter(random, 10)
    ELSE IF StrLen(context) >= 100 THEN 70 + Jitter(random, IF variant = "debug" THEN 10 ELSE 15)
    ELSE 50 + Jitter(random, IF variant = "debug" THEN 10 ELSE 20)

\* the confidence of the catch block of the loop
ErrorConfidence == 40

\* the confidence of the entry the robust handler adds to an empty result list
PlaceholderConfidence == 30

Confidence(variant, context, random) ==
    IF variant = "debug"
    THEN (IF StrLen(context) > 500 THEN 85 ELSE IF StrLen(context) > 100 THEN 70 ELSE 50)
            + Jitter(random, 10)
    ELSE IF StrLen(context) > 500 THEN 85 + Jitter(random, 10)
    ELSE IF StrLen(context) > 100 THEN 70 + Jitter(random, 15)
    ELSE 50 + Jitter(random, 20)

\* number: question.number || results.length + 1
ResultNumber(q, results) == IF q.number # 0 THEN q.number ELSE Len(results) + 1

Result(n, answer, confidence) == [number |-> n, answer |-> answer, confidence |-> confidence]

DenseMatchLists == {<<>>, <<Candidate(1, 10, 600)>>}

DenseOutcomes ==
    {[kind |-> "throw", content |-> <<>>],
     [kind |-> "text", content |-> <<"a">>],
     [kind |-> "text", content |-> <<"x">>]}

\* one entry of the request log: the question, the call, and its outcome or prompt
Call(i, what, arg) == [q |-> i, call |-> what, arg |-> arg]

\* a handler that sends the query without awaiting the embedding
QueryFirst(i, embedding, query, r) ==
    (IF r.queries = 1 THEN <<Call(i, "query", query)>> ELSE <<>>)
        \o <<Call(i, "embed", embedding)>>

\* the requests of one searchKnowledge call, in the order its awaits give them
SearchCalls(i, embedding, query, r) ==
    <<Call(i, "embed", embedding)>>
        \o (IF r.queries = 1 THEN <<Call(i, "query", query)>> ELSE <<>>)

InitDense ==
    /\ dVariant \in DenseVariants
    /\ dWellFormed \in BOOLEAN
    /\ dEntries \in Batches
    /\ dIndexEmpty \in BOOLEAN
    /\ dPc = "start"
    /\ dQuestions = <<>>
    /\ dIdx = 0
    /\ dContext = <<>>
    /\ dResults = <<>>
    /\ dLog = <<>>
    /\ dStatus = 0
    /\ dBody = "none"

DenseEnd(status, body) ==
    /\ dPc' = "done"
    /\ dStatus' = status
    /\ dBody' = body

\* the extraction request and the parsing of its reply
DenseExtract ==
    /\ dPc = "start"
    /\ dLog' = Append(dLog, Call(0, "extract", "image"))
    /\ \E fetch \in {"throw", "notOk", "ok"} :
         IF fetch # "ok"
         THEN DenseEnd(500, "error") /\ UNCHANGED <<dQuestions, dIdx>>
         ELSE LET parsed == ParseQuestions(dVariant, dWellFormed, dEntries)
              IN  IF ~parsed.ok
                  THEN DenseEnd(500, "error") /\ UNCHANGED <<dQuestions, dIdx>>
                  ELSE IF parsed.questions = <<>>
                  THEN DenseEnd(200, "noQuestions") /\ UNCHANGED <<dQuestions, dIdx>>
                  ELSE IF LogThrows(dVariant, parsed.questions)
                  THEN DenseEnd(500, "error") /\ UNCHANGED <<dQuestions, dIdx>>
                  ELSE /\ dQuestions' = parsed.questions
                       /\ dIdx' = 1
                       /\ dPc' = "loop"
                       /\ UNCHANGED <<dStatus, dBody>>
    /\ UNCHANGED <<dVariant, dWellFormed, dEntries, dIndexEmpty, dContext, dResults>>
    /\ UNCHANGED notDense

\* the try block throws before any request; the catch block takes over
DenseCatch ==
    /\ dPc = "loop"
    /\ dIdx <= Len(dQuestions)
    /\ LoopBodyThrows(dQuestions[dIdx])
    /\ IF LoopCatchThrows(dQuestions[dIdx])
       THEN DenseEnd(500, "error") /\ UNCHANGED <<dIdx, dResults>>
       ELSE /\ dResults' = Append(dResults, Result(ResultNumber(dQuestions[dIdx], dResults), "B", ErrorConfidence))
            /\ dIdx' = dIdx + 1
            /\ UNCHANGED <<dPc, dStatus, dBody>>
    /\ UNCHANGED <<dVariant, dWellFormed, dEntries, dIndexEmpty, dQuestions, dContext, dLog>>
    /\ UNCHANGED notDense

\* the robust handler passes over a question without text or options
DenseSkip ==
    /\ dPc = "loop"
    /\ dIdx <= Len(dQuestions)
    /\ ~LoopBodyThrows(dQuestions[dIdx])
    /\ Skipped(dVariant, dQuestions[dIdx])
    /\ dIdx' = dIdx + 1
    /\ UNCHANGED <<dVariant, dWellFormed, dEntries, dIndexEmpty, dPc, dQuestions, dContext,
                   dResults, dLog, dStatus, dBody>>
    /\ UNCHANGED notDense

\* const context = await searchKnowledge(question.text, question.options || {})
DenseSearch ==
    /\ dPc = "loop"
    /\ dIdx <= Len(dQuestions)
    /\ ~LoopBodyThrows(dQuestions[dIdx])
    /\ ~Skipped(dVariant, dQuestions[dIdx])
    /\ \E embedding \in {"throw", "novector", "ok"}, query \in {"throw", "ok"},
          matches \in (IF dIndexEmpty THEN {<<>>} ELSE DenseMatchLists) :
         LET r == searchKnowledge(TRUE, embedding, query, matches)
         IN  /\ dContext' = r.context
             /\ dLog' = dLog \o SearchCalls(dIdx, embedding, query, r)
             /\ IF r.thrown
                THEN DenseEnd(500, "error")
                ELSE dPc' = "answer" /\ UNCHANGED <<dStatus, dBody>>
    /\ UNCHANGED <<dVariant, dWellFormed, dEntries, dIndexEmpty, dQuestions, dIdx, dResults>>
    /\ UNCHANGED notDense

\* const answer = await analyzeQuestionWithRAG(question, context); results.push(...)
DenseAnswer ==
    /\ dPc = "answer"
    /\ \E outcome \in DenseOutcomes, rnd \in BOOLEAN, random \in Randoms :
         LET q == dQuestions[dIdx]
             r == analyzeQuestionWithRAG(AnalyzeVariantOf(dVariant), q,
                                         StringContext(dContext), outcome, rnd)
         IN  /\ dLog' = dLog \o (IF r.requests = 1
                                     THEN <<Call(dIdx, "complete", r.prompt.kind)>>
                                     ELSE <<>>)
                              \o <<Call(dIdx, "record", "result")>>
             /\ dResults' = Append(dResults,
                    IF r.threw
                    THEN Result(ResultNumber(q, dResults), "B", ErrorConfidence)
                    ELSE Result(ResultNumber(q, dResults), r.answer,
                                Confidence(dVariant, dContext, random)))
    /\ dIdx' = dIdx + 1
    /\ dPc' = "loop"
    /\ UNCHANGED <<dVariant, dWellFormed, dEntries, dIndexEmpty, dQuestions, dContext, dStatus, dBody>>
    /\ UNCHANGED notDense

\* after the loop: the table and the 200 response
DenseRespond ==
    /\ dPc = "loop"
    /\ dIdx > Len(dQuestions)
    /\ dResults' = IF dVariant = "robust" /\ dResults = <<>>
                   THEN <<Result(1, "B", PlaceholderConfidence)>>
                   ELSE dResults
    /\ DenseEnd(200, "table")
    /\ UNCHANGED <<dVariant, dWellFormed, dEntries, dIndexEmpty, dQuestions, dIdx, dContext, dLog>>
    /\ UNCHANGED notDense

NextDense ==
    DenseExtract \/ DenseCatch \/ DenseSkip \/ DenseSearch \/ DenseAnswer \/ DenseRespond

IdleDense ==
    /\ dVariant = "enhanced"
    /\ dWellFormed = TRUE
    /\ dEntries = <<>>
    /\ dIndexEmpty = FALSE
    /\ dPc = "idle"
    /\ dQuestions = <<>>
    /\ dIdx = 0
    /\ dContext = <<>>
    /\ dResults = <<>>
    /\ dLog = <<>>
    /\ dStatus = 0
    /\ dBody = "none"

(***************************************************************************)
(* The lexical handler (first half of analyze-enhanced.js).  A chunk text, *)
(* a question text and an option text are sequences of words as written;   *)
(* preprocessText lower-cases them and strips their punctuation.  Chunk    *)
(* positions count from 1 (the code's ids count from 0).                   *)
(***************************************************************************)
CONFIG ==
    [chunksPerQuestion |-> 3,
     maxKeywordsPerQuestion |-> 8,
     minScoreThreshold |-> 20,
     contextWindow |-> 2]

\* toLowerCase and replace(/[^\w\sàèéìòù]/g, '') on one word
PlainWord(w) ==
    CASE w = "Quale" -> "quale"
      [] w = "Il" -> "il"
      [] w = "La" -> "la"
      [] w = "Chi" -> "chi"
      [] w = "dati." -> "dati"
      [] w = "tempi." -> "tempi"
      [] w = "server?" -> "server"
      [] w = "serve?" -> "serve"
      [] w = "vince?" -> "vince"
      [] w = "Rischio" -> "rischio"
      [] w = "Della" -> "della"
      [] w = "rete," -> "rete"
      [] w = "Kraljic" -> "kraljic"
      [] w = "Rischi" -> "rischi"
      [] w = "NP-hard" -> "nphard"
      [] OTHER -> w

preprocessText(text) == [i \in 1..Len(text) |-> PlainWord(text[i])]

\* Array.prototype.slice(0, n)
Slice(s, n) == SubSeq(s, 1, IF Len(s) < n THEN Len(s) ELSE n)

\* [...new Set(words)]: the first occurrence of each word, in order
RECURSIVE Unique(_)
Unique(s) ==
    IF s = <<>> THEN <<>>
    ELSE LET init == Unique(SubSeq(s, 1, Len(s) - 1))
             last == s[Len(s)]
         IN  IF \E i \in 1..Len(init) : init[i] = last THEN init ELSE Append(init, last)

StopWords == {"della", "delle", "sono", "quale", "quali", "come", "quando"}

IsQuestionKeyword(w) == Len(w) > 3 /\ w \notin StopWords

IsOptionKeyword(w) == Len(w) > 4

\* a filter that would also index the words of three characters
IsIndexedFrom3(w) == Len(w) > 2

IsIndexed(w) == Len(w) > 3

RECURSIVE OptionKeywords(_)
OptionKeywords(values) ==
    IF values = <<>> THEN <<>>
    ELSE Slice(SelectSeq(preprocessText(Head(values)), IsOptionKeyword), 2)
            \o OptionKeywords(Tail(values))

extractKeywordsFromQuestion(question) ==
    LET words == SelectSeq(preprocessText(question.text), IsQuestionKeyword)
    IN  Slice(Unique(words \o OptionKeywords(Values(question.options))),
              CONFIG.maxKeywordsPerQuestion)

\* the words of one chunk that the index and the IDF table hold
ChunkWords(chunk) ==
    {w \in {PlainWord(chunk[i]) : i \in 1..Len(chunk)} : IsIndexed(w)}

Vocabulary(chunks) == UNION {ChunkWords(chunks[i]) : i \in 1..Len(chunks)}

\* word -> the positions of the chunks that hold it
buildInvertedIndex(chunks) ==
    [w \in Vocabulary(chunks) |-> {i \in 1..Len(chunks) : w \in ChunkWords(chunks[i])}]

\* word -> the argument of Math.log: N / (1 + document frequency)
calculateTFIDF(chunks) ==
    [w \in Vocabulary(chunks) |->
        [n |-> Len(chunks),
         d |-> 1 + Cardinality({i \in 1..Len(chunks) : w \in ChunkWords(chunks[i])})]]

\* index.get(keyword) || new Set()
IndexGet(index, keyword) == IF keyword \in DOMAIN index THEN index[keyword] ELSE {}

\* a set of chunk positions in the order a Set iterates them (insertion order)
RECURSIVE Ascending(_)
Ascending(ids) ==
    IF ids = {} THEN <<>>
    ELSE LET m == CHOOSE i \in ids : \A j \in ids : i <= j
         IN  <<m>> \o Ascending(ids \ {m})

\* the keys of chunkScores in the order the Map received them
RECURSIVE ScoredOrder(_, _)
ScoredOrder(keywords, index) ==
    IF keywords = <<>> THEN <<>>
    ELSE LET init == ScoredOrder(SubSeq(keywords, 1, Len(keywords) - 1), index)
             seen == {init[i] : i \in 1..Len(init)}
         IN  init \o Ascending(IndexGet(index, keywords[Len(keywords)]) \ seen)

ChunkScore(id, keywords, index) ==
    10 * Cardinality({i \in 1..Len(keywords) : id \in IndexGet(index, keywords[i])})

\* Array.prototype.sort((a, b) => b.score - a.score): stable, descending
RECURSIVE SortByScore(_)
SortByScore(s) ==
    IF s = <<>> THEN <<>>
    ELSE LET init == SortByScore(SubSeq(s, 1, Len(s) - 1))
             last == s[Len(s)]
             keep == {i \in 1..Len(init) : init[i].score >= last.score}
             k == Cardinality(keep)
         IN  SubSeq(init, 1, k) \o <<last>> \o SubSeq(init, k + 1, Len(init))

SearchLimit == 10

searchWithIndex(keywords, index) ==
    LET order == ScoredOrder(keywords, index)
        scored == [i \in 1..Len(order) |->
                     [chunk |-> order[i], score |-> ChunkScore(order[i], keywords, index)]]
    IN  Slice(SortByScore(scored), SearchLimit)

\* one entry of optimizedSearch's result, before the nearby-context pass
DirectResult(question, index) ==
    [question |-> question,
     matches |-> Slice(searchWithIndex(extractKeywordsFromQuestion(question), index),
                       CONFIG.chunksPerQuestion),
     inferredFromContext |-> FALSE]

Max(a, b) == IF a > b THEN a ELSE b

\* nearbyMatches: the best match of each neighbour that has one
RECURSIVE NearbyMatches(_, _, _, _)
NearbyMatches(results, idx, i, last) ==
    IF i > last THEN <<>>
    ELSE (IF i # idx /\ results[i].matches # <<>> THEN Slice(results[i].matches, 1) ELSE <<>>)
            \o NearbyMatches(results, idx, i + 1, last)

\* the map visits the results in order and writes into them as it goes
RECURSIVE EnhanceFrom(_, _)
EnhanceFrom(results, idx) ==
    IF idx > Len(results) THEN results
    ELSE LET nearby == NearbyMatches(results, idx, Max(1, idx - CONFIG.contextWindow),
                                     Min(Len(results), idx + CONFIG.contextWindow))
         IN  IF results[idx].matches = <<>> /\ nearby # <<>>
             THEN EnhanceFrom([results EXCEPT
                                  ![idx].matches = Slice(SortByScore(nearby), 2),
                                  ![idx].inferredFromContext = TRUE], idx + 1)
             ELSE EnhanceFrom(results, idx + 1)

enhanceWithNearbyContext(results) == EnhanceFrom(results, 1)

optimizedSearch(questions, index) ==
    enhanceWithNearbyContext([i \in 1..Len(questions) |-> DirectResult(questions[i], index)])

(***************************************************************************)
(* The extraction reply of the lexical handler: blocks separated by '---', *)
(* each a list of lines [tag, value]; a line without a known prefix has    *)
(* the tag "other".                                                        *)
(***************************************************************************)
BlockLine(tag, value) == [tag |-> tag, value |-> value]

OptionTag(tag) ==
    CASE tag = "OPZIONE_A" -> "A"
      [] tag = "OPZIONE_B" -> "B"
      [] tag = "OPZIONE_C" -> "C"
      [] tag = "OPZIONE_D" -> "D"
      [] OTHER -> "none"

\* question.options[k] = v: a new key goes last, a known key keeps its place
SetOption(options, k, v) ==
    IF \E i \in 1..Len(options) : options[i].k = k
    THEN [i \in 1..Len(options) |-> IF options[i].k = k THEN Opt(k, v) ELSE options[i]]
    ELSE Append(options, Opt(k, v))

RECURSIVE ParseLines(_, _)
ParseLines(lines, question) ==
    IF lines = <<>> THEN question
    ELSE LET line == Head(lines)
         IN  ParseLines(Tail(lines),
                IF line.tag = "TESTO" THEN [question EXCEPT !.text = line.value]
                ELSE IF OptionTag(line.tag) # "none"
                THEN [question EXCEPT
                         !.options = SetOption(question.options, OptionTag(line.tag), line.value)]
                ELSE question)

\* const question = { number: index + 1, text: '', options: {} } and its lines
ParseBlock(block, index) == ParseLines(block, Question(index, <<>>, <<>>))

\* if (question.text && Object.keys(question.options).length >= 2)
BlockAccepted(question) == question.text # <<>> /\ Len(Keys(question.options)) >= 2

ParseBlocks(blocks) ==
    SelectSeq([i \in 1..Len(blocks) |-> ParseBlock(blocks[i], i)], BlockAccepted)

LexBlock(kind) ==
    CASE kind = "good" ->
            <<BlockLine("TESTO", <<"Quale", "protocollo", "collega", "rete", "server?">>),
              BlockLine("OPZIONE_A", <<"memoria">>), BlockLine("OPZIONE_B", <<"disco">>)>>
      [] kind = "weak" ->
            <<BlockLine("other", <<"DOMANDA">>),
              BlockLine("TESTO", <<"Quale", "memoria", "serve?">>),
              BlockLine("OPZIONE_A", <<"una">>), BlockLine("OPZIONE_B", <<"due">>)>>
      [] kind = "none" ->
            <<BlockLine("TESTO", <<"Chi", "vince?">>),
              BlockLine("OPZIONE_A", <<"una">>), BlockLine("OPZIONE_A", <<"uno">>),
              BlockLine("OPZIONE_C", <<"due">>)>>
      [] kind = "noText" ->
            <<BlockLine("OPZIONE_A", <<"una">>), BlockLine("OPZIONE_B", <<"due">>)>>
      [] OTHER ->
            <<BlockLine("TESTO", <<"Quale", "memoria", "serve?">>),
              BlockLine("OPZIONE_A", <<"una">>)>>

BlockKinds == {"good", "weak", "none", "noText", "oneOption"}

MaxBlocks == 2

BlockLists ==
    UNION {{[i \in 1..n |-> LexBlock(kinds[i])] : kinds \in [1..n -> BlockKinds]} : n \in 0..MaxBlocks}

Course ==
    <<<<"Il", "protocollo", "della", "rete", "collega", "server", "e", "dati.">>,
      <<"La", "memoria", "cache", "riduce", "i", "tempi.">>>>

Corpora == {<<>>, Course, <<Course[2]>>}

\* what loadEnhancedData hands back: null, or the data with the chunks it fetched
LoadedData ==
    {[isNull |-> TRUE, textChunks |-> <<>>]}
    \cup {[isNull |-> FALSE, textChunks |-> c] : c \in Corpora}

(***************************************************************************)
(* The analysis reply: a list of lines, each a sequence of symbols.        *)
(***************************************************************************)
Digits == {"0", "1", "2", "3"}

DigitValue(c) == CASE c = "1" -> 1 [] c = "2" -> 2 [] c = "3" -> 3 [] OTHER -> 0

\* the length of the leading run of digits
RECURSIVE DigitsLen(_)
DigitsLen(line) ==
    IF line = <<>> \/ Head(line) \notin Digits THEN 0 ELSE 1 + DigitsLen(Tail(line))

\* parseInt(num)
RECURSIVE parseInt(_)
parseInt(digits) ==
    IF digits = <<>> THEN 0
    ELSE 10 * parseInt(SubSeq(digits, 1, Len(digits) - 1)) + DigitValue(digits[Len(digits)])

LowerLetters == {"a", "b", "c", "d"}

\* line.match(/^(\d+)[.):]\s*([a-dA-D])$/)
LineMatch(line) ==
    LET k == DigitsLen(line)
        rest == IF Len(line) >= k + 2 THEN TrimStart(SubSeq(line, k + 2, Len(line))) ELSE <<>>
    IN  IF /\ k >= 1
           /\ Len(line) >= k + 2
           /\ line[k + 1] \in {".", ")", ":"}
           /\ Len(rest) = 1
           /\ rest[1] \in Letters \cup LowerLetters
        THEN [ok |-> TRUE, num |-> parseInt(SubSeq(line, 1, k)), letter |-> rest[1]]
        ELSE [ok |-> FALSE, num |-> 0, letter |-> ""]

\* line.includes('ANALISI:')
IsAnalysisLine(line) == \E i \in 1..Len(line) : line[i] = "ANALISI:"

\* the accuracy of one row, from searchResults[parseInt(num) - 1]
Accuracy(results, num, random) ==
    LET known == num \in 1..Len(results)
        hasGoodMatch == known /\ results[num].matches # <<>> /\ results[num].matches[1].score > 30
        isInferred == known /\ results[num].inferredFromContext
    IN  IF hasGoodMatch THEN 90 + Jitter(random, 5)
        ELSE IF isInferred THEN 75 + Jitter(random, 10)
        ELSE 70 + Jitter(random, 10)

\* the rows of the table, one for each answer line before the ANALISI line
RECURSIVE TableRows(_, _, _, _)
TableRows(lines, results, randoms, i) ==
    IF i > Len(lines) \/ IsAnalysisLine(lines[i]) THEN <<>>
    ELSE LET m == LineMatch(lines[i])
         IN  (IF m.ok
              THEN <<[num |-> m.num, letter |-> UpperChar(m.letter),
                      acc |-> Accuracy(results, m.num, randoms[i])]>>
              ELSE <<>>)
             \o TableRows(lines, results, randoms, i + 1)

ReplyLines ==
    {<<"1", ".", " ", "A">>,
     <<"2", ".", "b">>,
     <<"1", ")", " ", "C">>,
     <<"3", ":", " ", "d">>,
     <<"1", ".", " ", "A", " ">>,
     <<"ANALISI:", "x">>,
     <<>>}

MaxLines == 2

\* finalResponse.split('\n'): at least one line
Replies == UNION {[1..n -> ReplyLines] : n \in 1..MaxLines}

(***************************************************************************)
(* callClaudeWithRetry(url, options, maxRetries = 3).  An attempt is one   *)
(* fetch: it resolves to a response with status 429, 200 or 500, or it     *)
(* rejects ("error").  The state of a call holds the loop index i, where   *)
(* the call stands, the outcomes of its attempts, the wait that followed   *)
(* each attempt (0 for none), and how the call ended: with a response, by  *)
(* falling out of the loop (the value undefined) or by throwing.           *)
(***************************************************************************)
DefaultMaxRetries == 3
RetryBaseWait == 2000
RetryMaxWait == 15000
ErrorWait == 2000

AttemptOutcomes == {"429", "200", "500", "error"}

RetryStart ==
    [i |-> 0, pc |-> "fetch", outcomes |-> <<>>, waits |-> <<>>, result |-> "none", status |-> "none"]

\* the wait without its ceiling
UncappedWait(i) == (2 ^ i) * RetryBaseWait

\* Math.min(Math.pow(2, i) * 2000, 15000)
RateLimitWait(i) == Min((2 ^ i) * RetryBaseWait, RetryMaxWait)

RetryDone(st, outcome, result) ==
    [st EXCEPT !.pc = "done", !.outcomes = Append(@, outcome), !.waits = Append(@, 0),
               !.result = result, !.status = IF result = "response" THEN outcome ELSE "none"]

RetrySleep(st, outcome, time) ==
    [st EXCEPT !.pc = "wait", !.outcomes = Append(@, outcome), !.waits = Append(@, time)]

\* a loop body whose catch would rethrow at once
AfterFetchRethrow(st, outcome, maxRetries) ==
    IF outcome = "429" THEN RetrySleep(st, outcome, RateLimitWait(st.i))
    ELSE IF outcome = "error" THEN RetryDone(st, outcome, "throw")
    ELSE RetryDone(st, outcome, "response")

\* one pass of the try / catch of the loop body, up to its return, throw or timer
AfterFetch(st, outcome, maxRetries) ==
    IF outcome = "429" THEN RetrySleep(st, outcome, RateLimitWait(st.i))
    ELSE IF outcome = "error"
    THEN (IF st.i = maxRetries - 1
          THEN RetryDone(st, outcome, "throw")
          ELSE RetrySleep(st, outcome, ErrorWait))
    ELSE RetryDone(st, outcome, "response")

\* the timer fires: continue, i++, and the test i < maxRetries
AfterWait(st, maxRetries) ==
    IF st.i + 1 < maxRetries
    THEN [st EXCEPT !.i = @ + 1, !.pc = "fetch"]
    ELSE [st EXCEPT !.i = @ + 1, !.pc = "done", !.result = "undefined"]

\* the whole call, for the outcomes its attempts will meet
RECURSIVE RetryRun(_, _, _)
RetryRun(st, script, maxRetries) ==
    IF st.pc = "wait" THEN RetryRun(AfterWait(st, maxRetries), script, maxRetries)
    ELSE IF st.pc = "fetch" /\ script # <<>>
    THEN RetryRun(AfterFetch(st, Head(script), maxRetries), Tail(script), maxRetries)
    ELSE st

callClaudeWithRetry(script, maxRetries) ==
    IF maxRetries <= 0
    THEN [RetryStart EXCEPT !.pc = "done", !.result = "undefined"]
    ELSE RetryRun(RetryStart, script, maxRetries)

MaxRetriesArg == 4

InitRetry ==
    /\ rMaxRetries \in 1..MaxRetriesArg
    /\ rState = RetryStart

RetryFetch ==
    /\ rState.pc = "fetch"
    /\ \E outcome \in AttemptOutcomes : rState' = AfterFetch(rState, outcome, rMaxRetries)
    /\ UNCHANGED rMaxRetries
    /\ UNCHANGED notRetry

RetryWait ==
    /\ rState.pc = "wait"
    /\ rState' = AfterWait(rState, rMaxRetries)
    /\ UNCHANGED rMaxRetries
    /\ UNCHANGED notRetry

NextRetry == RetryFetch \/ RetryWait

IdleRetry ==
    /\ rMaxRetries = DefaultMaxRetries
    /\ rState = [RetryStart EXCEPT !.pc = "idle"]

\* what the attempts of one call of the handler meet
FetchScripts ==
    {<<"200">>, <<"500">>, <<"429", "200">>, <<"error", "429", "200">>,
     <<"429", "429", "429">>, <<"error", "error", "error">>}

\* one entry of the handler's log: the call, its attempts and how it ended
Fetched(call, r) == [call |-> call, outcomes |-> r.outcomes, result |-> r.result]

\* the caller goes on only with a response whose ok is true;
\* reading .ok of undefined throws like a rejected call
ResponseOk(r) == r.result = "response" /\ r.status = "200"

NoCache == [built |-> FALSE, value |-> <<>>]

Cached(value) == [built |-> TRUE, value |-> value]

InitLex ==
    /\ lData \in LoadedData
    /\ lBlocks \in BlockLists
    /\ lPc = "start"
    /\ lSearchIndexCache = NoCache
    /\ lIdfScoresCache = NoCache
    /\ lQuestions = <<>>
    /\ lSearchResults = <<>>
    /\ lRows = <<>>
    /\ lLog = <<>>
    /\ lStatus = 0
    /\ lBody = "none"

LexEnd(status, body) ==
    /\ lPc' = "done"
    /\ lStatus' = status
    /\ lBody' = body

\* the checks of the request, the course data and the two caches
LexLoad ==
    /\ lPc = "start"
    /\ \E apiKey \in BOOLEAN, image \in BOOLEAN :
         IF ~apiKey
         THEN LexEnd(500, "noApiKey") /\ UNCHANGED <<lSearchIndexCache, lIdfScoresCache>>
         ELSE IF ~image
         THEN LexEnd(400, "noImage") /\ UNCHANGED <<lSearchIndexCache, lIdfScoresCache>>
         ELSE IF lData.isNull \/ Len(lData.textChunks) = 0
         THEN LexEnd(500, "noCourse") /\ UNCHANGED <<lSearchIndexCache, lIdfScoresCache>>
         ELSE /\ lSearchIndexCache' = IF lSearchIndexCache.built THEN lSearchIndexCache
                                      ELSE Cached(buildInvertedIndex(lData.textChunks))
              /\ lIdfScoresCache' = IF lIdfScoresCache.built THEN lIdfScoresCache
                                    ELSE Cached(calculateTFIDF(lData.textChunks))
              /\ lPc' = "extract"
              /\ UNCHANGED <<lStatus, lBody>>
    /\ UNCHANGED <<lData, lBlocks, lQuestions, lSearchResults, lRows, lLog>>
    /\ UNCHANGED notLex

\* the extraction request, the block parser and the search
LexExtract ==
    /\ lPc = "extract"
    /\ \E script \in FetchScripts :
         LET r == callClaudeWithRetry(script, DefaultMaxRetries)
         IN  /\ lLog' = Append(lLog, Fetched("extract", r))
             /\ IF ~ResponseOk(r)
                THEN LexEnd(500, "error") /\ UNCHANGED <<lQuestions, lSearchResults>>
                ELSE /\ lQuestions' = ParseBlocks(lBlocks)
                     /\ lSearchResults' = optimizedSearch(ParseBlocks(lBlocks),
                                                          lSearchIndexCache.value)
                     /\ lPc' = "analyze"
                     /\ UNCHANGED <<lStatus, lBody>>
    /\ UNCHANGED <<lData, lBlocks, lSearchIndexCache, lIdfScoresCache, lRows>>
    /\ UNCHANGED notLex

\* the analysis request and the table built from the lines of its reply
LexAnalyze ==
    /\ lPc = "analyze"
    /\ \E script \in FetchScripts :
         LET r == callClaudeWithRetry(script, DefaultMaxRetries)
         IN  /\ lLog' = Append(lLog, Fetched("analyze", r))
             /\ IF ~ResponseOk(r)
                THEN LexEnd(500, "error") /\ UNCHANGED lRows
                ELSE \E lines \in Replies : \E randoms \in [1..Len(lines) -> Randoms] :
                        /\ lRows' = TableRows(lines, lSearchResults, randoms, 1)
                        /\ LexEnd(200, "table")
    /\ UNCHANGED <<lData, lBlocks, lSearchIndexCache, lIdfScoresCache, lQuestions, lSearchResults>>
    /\ UNCHANGED notLex

NextLex == LexLoad \/ LexExtract \/ LexAnalyze

IdleLex ==
    /\ lData = [isNull |-> TRUE, textChunks |-> <<>>]
    /\ lBlocks = <<>>
    /\ lPc = "idle"
    /\ lSearchIndexCache = NoCache
    /\ lIdfScoresCache = NoCache
    /\ lQuestions = <<>>
    /\ lSearchResults = <<>>
    /\ lRows = <<>>
    /\ lLog = <<>>
    /\ lStatus = 0
    /\ lBody = "none"

(***************************************************************************)
(* The caches of the lexical handler's process (enhancedDataCache,         *)
(* searchIndexCache, idfScoresCache) under several requests.  A request    *)
(* runs from one await to the next in one step; the continuations that are *)
(* ready run in any order.  cIndexBuilds, cIndexWrites, cIdfBuilds and     *)
(* cIdfWrites count the calls of buildInvertedIndex and calculateTFIDF and *)
(* the assignments to the two caches.                                      *)
(***************************************************************************)
MaxRequests == 2

Requests == 1..MaxRequests

NoData == [isNull |-> TRUE, textChunks |-> <<>>]

\* if (!idfScoresCache) idfScoresCache = calculateTFIDF(data.textChunks), and on
\* to the timer before the extraction
CacheIdf(r) ==
    /\ IF cIdfScoresCache.built
       THEN UNCHANGED <<cIdfScoresCache, cIdfBuilds, cIdfWrites>>
       ELSE /\ cIdfScoresCache' = Cached(calculateTFIDF(cData[r].textChunks))
            /\ cIdfBuilds' = cIdfBuilds + 1
            /\ cIdfWrites' = cIdfWrites + 1
    /\ cPc' = [cPc EXCEPT ![r] = "ready"]

InitCache ==
    /\ cPc = [r \in Requests |-> "new"]
    /\ cData = [r \in Requests |-> NoData]
    /\ cPending = [r \in Requests |-> NoCache]
    /\ cEnhancedDataCache = NoData
    /\ cSearchIndexCache = NoCache
    /\ cIdfScoresCache = NoCache
    /\ cIndexBuilds = 0
    /\ cIndexWrites = 0
    /\ cIdfBuilds = 0
    /\ cIdfWrites = 0

\* the handler starts and awaits loadEnhancedData(), which returns the cached
\* data or goes to the network
CacheStart(r) ==
    /\ cPc[r] = "new"
    /\ IF cEnhancedDataCache.isNull
       THEN cPc' = [cPc EXCEPT ![r] = "fetching"] /\ UNCHANGED cData
       ELSE /\ cPc' = [cPc EXCEPT ![r] = "loaded"]
            /\ cData' = [cData EXCEPT ![r] = cEnhancedDataCache]
    /\ UNCHANGED <<cPending, cEnhancedDataCache, cSearchIndexCache, cIdfScoresCache,
                   cIndexBuilds, cIndexWrites, cIdfBuilds, cIdfWrites>>
    /\ UNCHANGED notCache

\* loadEnhancedData comes back from the network: null, or the data it caches
CacheFetched(r) ==
    /\ cPc[r] = "fetching"
    /\ \E data \in LoadedData :
         /\ cData' = [cData EXCEPT ![r] = data]
         /\ cEnhancedDataCache' = IF data.isNull THEN cEnhancedDataCache ELSE data
    /\ cPc' = [cPc EXCEPT ![r] = "loaded"]
    /\ UNCHANGED <<cPending, cSearchIndexCache, cIdfScoresCache,
                   cIndexBuilds, cIndexWrites, cIdfBuilds, cIdfWrites>>
    /\ UNCHANGED notCache

\* the handler resumes with its data: the course check, then
\* if (!searchIndexCache) ... await buildInvertedIndex(data.textChunks)
CacheCheck(r) ==
    /\ cPc[r] = "loaded"
    /\ IF cData[r].isNull \/ Len(cData[r].textChunks) = 0
       THEN /\ cPc' = [cPc EXCEPT ![r] = "failed"]
            /\ UNCHANGED <<cPending, cIdfScoresCache, cIndexBuilds, cIdfBuilds, cIdfWrites>>
       ELSE IF ~cSearchIndexCache.built
       THEN /\ cPending' = [cPending EXCEPT ![r] = Cached(buildInvertedIndex(cData[r].textChunks))]
            /\ cIndexBuilds' = cIndexBuilds + 1
            /\ cPc' = [cPc EXCEPT ![r] = "building"]
            /\ UNCHANGED <<cIdfScoresCache, cIdfBuilds, cIdfWrites>>
       ELSE /\ CacheIdf(r)
            /\ UNCHANGED <<cPending, cIndexBuilds>>
    /\ UNCHANGED <<cData, cEnhancedDataCache, cSearchIndexCache, cIndexWrites>>
    /\ UNCHANGED notCache

\* the await of buildInvertedIndex is over: searchIndexCache = (the index built)
CacheAssign(r) ==
    /\ cPc[r] = "building"
    /\ cSearchIndexCache' = cPending[r]
    /\ cIndexWrites' = cIndexWrites + 1
    /\ CacheIdf(r)
    /\ UNCHANGED <<cData, cPending, cEnhancedDataCache, cIndexBuilds>>
    /\ UNCHANGED notCache

\* the rest of the request reads the two caches and writes neither
CacheSearch(r) ==
    /\ cPc[r] = "ready"
    /\ cPc' = [cPc EXCEPT ![r] = "searched"]
    /\ UNCHANGED <<cData, cPending, cEnhancedDataCache, cSearchIndexCache, cIdfScoresCache,
                   cIndexBuilds, cIndexWrites, cIdfBuilds, cIdfWrites>>
    /\ UNCHANGED notCache

NextCache ==
    \E r \in Requests :
        CacheStart(r) \/ CacheFetched(r) \/ CacheCheck(r) \/ CacheAssign(r) \/ CacheSearch(r)

IdleCache ==
    /\ cPc = [r \in Requests |-> "idle"]
    /\ cData = [r \in Requests |-> NoData]
    /\ cPending = [r \in Requests |-> NoCache]
    /\ cEnhancedDataCache = NoData
    /\ cSearchIndexCache = NoCache
    /\ cIdfScoresCache = NoCache
    /\ cIndexBuilds = 0
    /\ cIndexWrites = 0
    /\ cIdfBuilds = 0
    /\ cIdfWrites = 0

(***************************************************************************)
(* The confidence a dense handler records, as a function of the length of  *)
(* the context: computed after an answer, or the constant of the catch     *)
(* block, or the constant of the robust handler's placeholder entry.       *)
(***************************************************************************)
MaxContextLength == 600

ConfidencePaths(variant) ==
    {"computed", "error"} \cup (IF variant = "robust" THEN {"placeholder"} ELSE {})

RecordedConfidence(variant, path, context, random) ==
    CASE path = "computed" -> Confidence(variant, context, random)
      [] path = "error" -> ErrorConfidence
      [] OTHER -> PlaceholderConfidence

InitConfidence ==
    /\ kVariant \in DenseVariants
    /\ kPath \in ConfidencePaths(kVariant)
    /\ kContext \in {Passage("p1", n) : n \in 0..MaxContextLength}
    /\ kConfidence = 0
    /\ kPc = "call"

ConfidenceOf ==
    /\ kPc = "call"
    /\ \E random \in Randoms :
         kConfidence' = RecordedConfidence(kVariant, kPath, kContext, random)
    /\ kPc' = "recorded"
    /\ UNCHANGED <<kVariant, kPath, kContext>>
    /\ UNCHANGED notConfidence

NextConfidence == ConfidenceOf

IdleConfidence ==
    /\ kVariant = "enhanced"
    /\ kPath = "computed"
    /\ kContext = <<>>
    /\ kConfidence = 0
    /\ kPc = "idle"

(***************************************************************************)
(* The context of the lexical analysis prompt.  Only lengths matter here:  *)
(* a chunk is the length of its text, its page, and the sentences that     *)
(* /[^.!?]+[.!?]+/g finds in the text, each with its trimmed length and    *)
(* the score extractImportantSentences gives it for the question at hand.  *)
(***************************************************************************)
MaxPassageLength == 250
TopSentences == 2
LexContextBudget == 2000
PreviewLength == 300
PreviewMatches == 2

Sentence(n, score) == [len |-> n, score |-> score]

Chunk(n, page, sentences) == [len |-> n, page |-> page, sentences |-> sentences]

\* the length of parts.join(sep), the parts and the separator given by their lengths
RECURSIVE JoinedLength(_, _)
JoinedLength(lens, sep) ==
    IF lens = <<>> THEN 0
    ELSE IF Len(lens) = 1 THEN lens[1]
    ELSE Head(lens) + sep + JoinedLength(Tail(lens), sep)

\* the length of text.substring(0, n)
SubstringLength(len, n) == Min(len, n)

\* the length of `${n}`
DecimalLength(n) == IF n < 10 THEN 1 ELSE IF n < 100 THEN 2 ELSE 3

\* the length of the passage returned for a chunk
extractImportantSentences(chunk, maxLength) ==
    IF chunk.sentences = <<>> THEN SubstringLength(chunk.len, maxLength)
    ELSE LET top == Slice(SortByScore(chunk.sentences), TopSentences)
         IN  SubstringLength(JoinedLength([i \in 1..Len(top) |-> top[i].len], 1), maxLength)

\* the matches optimizedSearch keeps for the chunks found for one question
PassageMatches(chunks) ==
    LET kept == Slice(chunks, CONFIG.chunksPerQuestion)
    IN  [i \in 1..Len(kept) |->
           [chunk |-> kept[i],
            text |-> extractImportantSentences(kept[i], MaxPassageLength),
            page |-> kept[i].page]]

\* `D${result.question.number}:${context}` for each result that has a match
RECURSIVE CompressedSegments(_, _)
CompressedSegments(results, i) ==
    IF i > Len(results) THEN <<>>
    ELSE (IF results[i].matches # <<>>
          THEN <<1 + DecimalLength(results[i].number) + 1 + results[i].matches[1].text>>
          ELSE <<>>) \o CompressedSegments(results, i + 1)

\* the lexical handler: map, filter, join('\n'), substring(0, 2000)
CompressedContext(results) ==
    SubstringLength(JoinedLength(CompressedSegments(results, 1), 1), LexContextBudget)

\* `[Pag ${match.page}] ${match.chunk.text.substring(0, 300)}...\n`
PreviewLine(match) ==
    5 + DecimalLength(match.page) + 2 + SubstringLength(match.chunk.len, PreviewLength) + 3 + 1

RECURSIVE PreviewLines(_)
PreviewLines(matches) ==
    IF matches = <<>> THEN 0 ELSE PreviewLine(Head(matches)) + PreviewLines(Tail(matches))

\* `\nDOMANDA ${index + 1} - CONTESTO TROVATO:\n`
QuestionHeader(i) == 9 + DecimalLength(i) + 21

\* the earlier lexical handler: one header and up to two previews per question, appended
RECURSIVE AppendedContext(_, _)
AppendedContext(results, i) ==
    IF i > Len(results) THEN 0
    ELSE (IF results[i].matches # <<>>
          THEN QuestionHeader(i) + PreviewLines(Slice(results[i].matches, PreviewMatches))
          ELSE 0) + AppendedContext(results, i + 1)

ContextVariants == {"enhanced", "bckGood"}

contextPerQuestion(variant, results) ==
    IF variant = "enhanced" THEN CompressedContext(results) ELSE AppendedContext(results, 1)

\* the passages extracted from chunks on the way to the prompt
Passages(variant, results) ==
    IF variant = "enhanced"
    THEN UNION {{results[i].matches[j].text : j \in 1..Len(results[i].matches)}
                : i \in 1..Len(results)}
    ELSE {}

ShortChunk == Chunk(40, 3, <<>>)
LongChunk == Chunk(400, 12, <<>>)
SentencedChunk == Chunk(420, 7, <<Sentence(200, 20), Sentence(30, 0), Sentence(180, 70)>>)

\* the chunks the search finds for one question, best first
FoundChunks == {<<>>, <<ShortChunk>>, <<SentencedChunk, LongChunk>>}

MaxContextQuestions == 8

\* search results, one per question; the text of a match exists in the later handler only
ContextResults(variant) ==
    UNION {{[i \in 1..n |->
               [number |-> i,
                matches |-> IF variant = "enhanced" THEN PassageMatches(found[i])
                            ELSE [j \in 1..Len(found[i]) |->
                                    [chunk |-> found[i][j], text |-> 0,
                                     page |-> found[i][j].page]]]]
            : found \in [1..n -> FoundChunks]} : n \in 0..MaxContextQuestions}

InitContext ==
    /\ xVariant \in ContextVariants
    /\ xResults \in ContextResults(xVariant)
    /\ xPassages = {}
    /\ xContext = 0
    /\ xPc = "searched"

\* the handler builds contextPerQuestion and puts it in the analysis prompt
AssembleContext ==
    /\ xPc = "searched"
    /\ xPassages' = Passages(xVariant, xResults)
    /\ xContext' = contextPerQuestion(xVariant, xResults)
    /\ xPc' = "prompted"
    /\ UNCHANGED <<xVariant, xResults>>
    /\ UNCHANGED notContext

NextContext == AssembleContext

IdleContext ==
    /\ xVariant = "enhanced"
    /\ xResults = <<>>
    /\ xPassages = {}
    /\ xContext = 0
    /\ xPc = "idle"

(***************************************************************************)
(* optimizedSearch called twice in a row with the same questions, on the   *)
(* chunks, index and IDF table the process holds.                          *)
(***************************************************************************)
\* a lookup that would store the empty set it falls back to
IndexAfterGetOrInsert(index, keyword) ==
    [w \in DOMAIN index \cup {keyword} |-> IndexGet(index, w)]

\* the only access to the index is index.get(keyword) || new Set(): it inserts nothing
IndexAfterGet(index, keyword) == index

RECURSIVE IndexAfterKeywords(_, _)
IndexAfterKeywords(index, keywords) ==
    IF keywords = <<>> THEN index
    ELSE IndexAfterKeywords(IndexAfterGet(index, Head(keywords)), Tail(keywords))

\* the index after optimizedSearch has looked up the keywords of every question
RECURSIVE IndexAfterSearch(_, _)
IndexAfterSearch(index, questions) ==
    IF questions = <<>> THEN index
    ELSE IndexAfterSearch(IndexAfterKeywords(index, extractKeywordsFromQuestion(Head(questions))),
                          Tail(questions))

SearchKinds == {"good", "weak", "none"}

MaxSearchQuestions == 4

SearchQuestions ==
    UNION {{ParseBlocks([i \in 1..n |-> LexBlock(kinds[i])]) : kinds \in [1..n -> SearchKinds]}
           : n \in 1..MaxSearchQuestions}

InitOptimized ==
    /\ oQuestions \in SearchQuestions
    /\ oChunks \in Corpora \ {<<>>}
    /\ oIndex = buildInvertedIndex(oChunks)
    /\ oIdf = calculateTFIDF(oChunks)
    /\ oCalls = <<>>

\* searchResults = optimizedSearch(questions, data.textChunks, searchIndexCache, idfScoresCache)
OptimizedSearchCall ==
    /\ Len(oCalls) < 2
    /\ oCalls' = Append(oCalls, optimizedSearch(oQuestions, oIndex))
    /\ oIndex' = IndexAfterSearch(oIndex, oQuestions)
    /\ UNCHANGED <<oQuestions, oChunks, oIdf>>
    /\ UNCHANGED notOptimized

NextOptimized == OptimizedSearchCall

IdleOptimized ==
    /\ oQuestions = <<>>
    /\ oChunks = <<>>
    /\ oIndex = <<>>
    /\ oIdf = <<>>
    /\ oCalls = <<>>

(***************************************************************************)
(* extractKeywordsFromQuestion: the function of analyze-enhanced.js and    *)
(* the one of the cached-answer variant, which has one more stop word and  *)
(* adds the synonyms of the keywords before it cuts the list.              *)
(***************************************************************************)
CachedStopWords == StopWords \cup {"dove"}

IsCachedQuestionKeyword(w) == Len(w) > 3 /\ w \notin CachedStopWords

synonyms ==
    [acquisti |-> <<"procurement", "approvvigionamento", "purchasing">>,
     rischio |-> <<"risk", "pericolo", "minaccia">>,
     ottimizzazione |-> <<"optimization", "ottimizzare", "ottimale">>,
     progetto |-> <<"project", "iniziativa", "programma">>,
     fornitore |-> <<"supplier", "vendor", "provider">>,
     strategico |-> <<"strategic", "strategia", "critico">>]

RECURSIVE SynonymsOf(_)
SynonymsOf(keywords) ==
    IF keywords = <<>> THEN <<>>
    ELSE (IF Head(keywords) \in DOMAIN synonyms THEN synonyms[Head(keywords)] ELSE <<>>)
            \o SynonymsOf(Tail(keywords))

\* new Set(keywords), then every synonym of every keyword added in order
expandWithSynonyms(keywords) == Unique(keywords \o SynonymsOf(keywords))

CachedKeywords(question) ==
    LET words == SelectSeq(preprocessText(question.text), IsCachedQuestionKeyword)
    IN  Slice(expandWithSynonyms(Unique(words \o OptionKeywords(Values(question.options)))),
              CONFIG.maxKeywordsPerQuestion)

KeywordVariants == {"enhanced", "cached"}

KeywordsOf(variant, question) ==
    IF variant = "enhanced" THEN extractKeywordsFromQuestion(question)
    ELSE CachedKeywords(question)

QuestionWords == {"Quale", "Rischio", "rete,", "dei", "dove"}
OptionWords == {"Della", "rischio", "dati", "fornitore"}

MaxQuestionWords == 2
MaxOptions == 2

LongQuestion ==
    Question(1, <<"Rischio", "acquisti", "fornitore", "progetto", "strategico">>,
             <<Opt("A", <<"ottimizzazione", "delle", "scorte">>), Opt("B", <<"quando", "serve">>)>>)

KeywordQuestions ==
    {LongQuestion} \cup
    UNION {UNION {{Question(1, text, [i \in 1..m |-> Opt(<<"A", "B", "C", "D">>[i], <<words[i]>>)])
                   : text \in [1..n -> QuestionWords], words \in [1..m -> OptionWords]}
                  : m \in 1..MaxOptions} : n \in 1..MaxQuestionWords}

InitKeywords ==
    /\ gVariant \in KeywordVariants
    /\ gQuestion \in KeywordQuestions
    /\ gKeywords = <<>>
    /\ gPc = "call"

ExtractKeywords ==
    /\ gPc = "call"
    /\ gKeywords' = KeywordsOf(gVariant, gQuestion)
    /\ gPc' = "returned"
    /\ UNCHANGED <<gVariant, gQuestion>>
    /\ UNCHANGED notKeywords

NextKeywords == ExtractKeywords

IdleKeywords ==
    /\ gVariant = "enhanced"
    /\ gQuestion = NullQuestion
    /\ gKeywords = <<>>
    /\ gPc = "idle"

(***************************************************************************)
(* buildInvertedIndex on a corpus, then searchWithIndex with a list of     *)
(* keywords of any length.                                                 *)
(***************************************************************************)
LargeChunks ==
    <<<<"I", "dati", "dei", "server">>, <<"La", "rete", "dei", "dati.">>, <<"memoria", "cache">>>>

MaxChunks == 12

\* a corpus of n chunks that repeats the three texts of LargeChunks
LargeCorpus(n) == [i \in 1..n |-> LargeChunks[((i - 1) % 3) + 1]]

IndexCorpora == {Course, <<Course[2]>>, LargeCorpus(3), LargeCorpus(MaxChunks)}

KeywordPool == {"rete", "memoria", "dei", "dati", "assente"}

MaxKeywords == 4

KeywordLists ==
    UNION {{ks \in [1..n -> KeywordPool] : \A a, b \in 1..n : ks[a] = ks[b] => a = b}
           : n \in 1..MaxKeywords}

InitIndex ==
    /\ iChunks \in IndexCorpora
    /\ iKeywords \in KeywordLists
    /\ iIndex = <<>>
    /\ iFound = <<>>
    /\ iPc = "build"

\* searchIndexCache = await buildInvertedIndex(data.textChunks)
IndexBuild ==
    /\ iPc = "build"
    /\ iIndex' = buildInvertedIndex(iChunks)
    /\ iPc' = "search"
    /\ UNCHANGED <<iChunks, iKeywords, iFound>>
    /\ UNCHANGED notIndex

\* relevantChunks = searchWithIndex(keywords, searchIndex, chunks)
IndexSearch ==
    /\ iPc = "search"
    /\ iFound' = searchWithIndex(iKeywords, iIndex)
    /\ iPc' = "found"
    /\ UNCHANGED <<iChunks, iKeywords, iIndex>>
    /\ UNCHANGED notIndex

NextIndex == IndexBuild \/ IndexSearch

IdleIndex ==
    /\ iChunks = <<>>
    /\ iKeywords = <<>>
    /\ iIndex = <<>>
    /\ iFound = <<>>
    /\ iPc = "idle"

(***************************************************************************)
(* The cached-answer lexical handler (src/unnamed/part_004): the table of  *)
(* common answers, checkCache, searchForAnswers and the handler's split    *)
(* between cached answers and questions that still need the model.  A      *)
(* pattern of the table is an alternation; an alternative is a list of     *)
(* literals joined by '.*', a literal a list of words joined by one space. *)
(***************************************************************************)
commonAnswersCache ==
    <<[key |-> "matrice di kraljic",
       pattern |-> <<<< <<"kraljic">> >>, << <<"matrice">> >>>>,
       answer |-> "D", confidence |-> 95],
      [key |-> "general purpose technology",
       pattern |-> <<<< <<"general", "purpose">> >>, << <<"gpt">> >>>>,
       answer |-> "C", confidence |-> 92],
      [key |-> "supply chain risk",
       pattern |-> <<<< <<"supply", "chain">>, <<"risk">> >>, << <<"rischi">>, <<"catena">> >>>>,
       answer |-> "D", confidence |-> 90],
      [key |-> "valutazione fornitori",
       pattern |-> <<<< <<"valutazione">>, <<"fornitori">> >>, << <<"vendor", "rating">> >>>>,
       answer |-> "B", confidence |-> 88],
      [key |-> "intelligenza artificiale",
       pattern |-> <<<< <<"intelligenza", "artificiale">> >>, << <<"ai">>, <<"supply">> >>>>,
       answer |-> "A", confidence |-> 85],
      [key |-> "progetto vs operazione",
       pattern |-> <<<< <<"progetto">>, <<"operazione">> >>, << <<"temporaneo">>, <<"ripetitivo">> >>>>,
       answer |-> "C", confidence |-> 90],
      [key |-> "ottimizzazione",
       pattern |-> <<<< <<"ottimizzazione">>, <<"difficolt">> >>, << <<"np-hard">> >>>>,
       answer |-> "D", confidence |-> 87],
      [key |-> "metaeuristica",
       pattern |-> <<<< <<"metaeuristic">> >>, << <<"algoritmi">>, <<"ottimizzazione">> >>>>,
       answer |-> "B", confidence |-> 86]>>

\* the words of the inputs that hold a shorter literal of the table
Substrings ==
    {<<"metaeuristica", "metaeuristic">>, <<"rischio", "rischi">>, <<"difficolta", "difficolt">>}

\* a literal word found inside a word of the text
Includes(word, part) == word = part \/ <<word, part>> \in Substrings

\* a literal at position p of the text
LiteralAt(text, literal, p) ==
    /\ p + Len(literal) - 1 <= Len(text)
    /\ \A j \in 1..Len(literal) : Includes(text[p + j - 1], literal[j])

\* the literals of one alternative, in order, from position from on
RECURSIVE AlternativeFrom(_, _, _)
AlternativeFrom(text, alternative, from) ==
    IF alternative = <<>> THEN TRUE
    ELSE \E p \in from..Len(text) :
            /\ LiteralAt(text, Head(alternative), p)
            /\ AlternativeFrom(text, Tail(alternative), p + Len(Head(alternative)))

\* new RegExp(value.pattern, 'i').test(questionText)
PatternTest(pattern, text) ==
    \E a \in 1..Len(pattern) : AlternativeFrom(text, pattern[a], 1)

NoCachedAnswer == [fromCache |-> FALSE, answer |-> "", confidence |-> 0]

CachedAnswer(entry) ==
    [fromCache |-> TRUE, answer |-> entry.answer, confidence |-> entry.confidence]

\* the entries of the table whose pattern the normalized question text matches
CacheHits(question) ==
    {e \in 1..Len(commonAnswersCache) :
        PatternTest(commonAnswersCache[e].pattern, preprocessText(question.text))}

\* a lookup that lets a later entry of the table win
checkCacheLast(question) ==
    LET hits == CacheHits(question)
    IN  IF hits = {} THEN NoCachedAnswer
        ELSE CachedAnswer(commonAnswersCache[CHOOSE e \in hits : \A f \in hits : f <= e])

\* the for loop over Object.entries returns at the first entry that matches
checkCache(question) ==
    LET hits == CacheHits(question)
    IN  IF hits = {} THEN NoCachedAnswer
        ELSE CachedAnswer(commonAnswersCache[CHOOSE e \in hits : \A f \in hits : e <= f])

\* searchForAnswers: a cached question is pushed with no matches before any
\* scoring; found[i] is the number of chunks that clear the threshold for
\* question i when it is scored
searchForAnswers(questions, found) ==
    [i \in 1..Len(questions) |->
        LET cached == checkCache(questions[i])
        IN  IF cached.fromCache
            THEN [question |-> questions[i], cachedAnswer |-> cached, matches |-> 0, scored |-> FALSE]
            ELSE [question |-> questions[i], cachedAnswer |-> cached, matches |-> found[i],
                  scored |-> TRUE]]

\* the blocks of the extraction reply, by the question text they carry
AnswerBlockKinds == {"kraljic", "both", "plain", "nphard", "dropped"}

BlockText(kind) ==
    CASE kind = "kraljic" -> <<"La", "matrice", "di", "Kraljic">>
      [] kind = "both" -> <<"Rischi", "catena", "algoritmi", "ottimizzazione">>
      [] kind = "plain" -> <<"Quale", "server?">>
      [] kind = "nphard" -> <<"problema", "NP-hard">>
      [] OTHER -> <<>>

\* questionBlocks.forEach: number is index + 1, a block without text is dropped
RECURSIVE CachedQuestionsFrom(_, _)
CachedQuestionsFrom(blocks, index) ==
    IF index > Len(blocks) THEN <<>>
    ELSE (IF BlockText(blocks[index]) # <<>>
          THEN <<[number |-> index, text |-> BlockText(blocks[index])]>>
          ELSE <<>>) \o CachedQuestionsFrom(blocks, index + 1)

DigitChars == <<"0", "1", "2", "3", "4", "5", "6", "7", "8", "9">>

\* `${result.question.number}`
RECURSIVE Decimal(_)
Decimal(n) ==
    IF n < 10 THEN <<DigitChars[n + 1]>>
    ELSE Decimal(n \div 10) \o <<DigitChars[(n % 10) + 1]>>

RECURSIVE SkipWhile(_, _, _)
SkipWhile(line, q, class) ==
    IF q <= Len(line) /\ line[q] \in class THEN SkipWhile(line, q + 1, class) ELSE q

\* the position of the letter when `${number}[.):]*\s*([a-dA-D])` matches at p, else 0
AnswerAt(line, number, p) ==
    LET digits == Decimal(number)
        q == SkipWhile(line, SkipWhile(line, p + Len(digits), {".", ")", ":"}), Whitespace)
    IN  IF /\ p + Len(digits) - 1 <= Len(line)
           /\ SubSeq(line, p, p + Len(digits) - 1) = digits
           /\ q <= Len(line)
           /\ line[q] \in Letters \cup LowerLetters
        THEN q ELSE 0

\* pattern.test(line): the pattern is not anchored
AnswerTest(line, number) == \E p \in 1..Len(line) : AnswerAt(line, number, p) > 0

\* found.match(pattern)[1]: the letter of the leftmost match
AnswerLetter(line, number) ==
    LET p == CHOOSE p \in 1..Len(line) :
                /\ AnswerAt(line, number, p) > 0
                /\ \A r \in 1..(p - 1) : AnswerAt(line, number, r) = 0
    IN  line[AnswerAt(line, number, p)]

\* lines.find(line => pattern.test(line)): the index of the first such line, else 0
FoundLine(lines, number) ==
    IF \E i \in 1..Len(lines) : AnswerTest(lines[i], number)
    THEN CHOOSE i \in 1..Len(lines) :
            /\ AnswerTest(lines[i], number)
            /\ \A j \in 1..(i - 1) : ~AnswerTest(lines[j], number)
    ELSE 0

\* 85 + Math.floor(Math.random() * 10) with matches, else 75
AnalysedConfidence(result, random) == IF result.matches > 0 THEN 85 + random ELSE 75

\* questionsNeedingAnalysis.forEach over the lines of the reply
RECURSIVE AnalysedAnswers(_, _, _)
AnalysedAnswers(needing, lines, randoms) ==
    IF needing = <<>> THEN <<>>
    ELSE LET result == Head(needing)
             i == FoundLine(lines, result.question.number)
         IN  (IF i > 0
              THEN <<[number |-> result.question.number,
                      answer |-> UpperChar(AnswerLetter(lines[i], result.question.number)),
                      confidence |-> AnalysedConfidence(result, randoms[result.question.number])]>>
              ELSE <<>>) \o AnalysedAnswers(Tail(needing), lines, randoms)

\* finalAnswers.sort((a, b) => a.number - b.number)
RECURSIVE InsertByNumber(_, _)
InsertByNumber(sorted, item) ==
    IF sorted = <<>> THEN <<item>>
    ELSE IF item.number < Head(sorted).number THEN <<item>> \o sorted
    ELSE <<Head(sorted)>> \o InsertByNumber(Tail(sorted), item)

RECURSIVE SortByNumber(_)
SortByNumber(answers) ==
    IF answers = <<>> THEN <<>>
    ELSE InsertByNumber(SortByNumber(SubSeq(answers, 1, Len(answers) - 1)), answers[Len(answers)])

IsCachedResult(result) == result.cachedAnswer.fromCache
NeedsAnalysis(result) == ~result.cachedAnswer.fromCache

\* searchResults.forEach: the cached answers of the request
CachedAnswersOf(results) ==
    LET cached == SelectSeq(results, IsCachedResult)
    IN  [i \in 1..Len(cached) |->
            [number |-> cached[i].question.number,
             answer |-> cached[i].cachedAnswer.answer,
             confidence |-> cached[i].cachedAnswer.confidence]]

MaxCachedBlocks == 2
MaxAnswerLines == 2

\* lines of the analysis reply: own lines, a line of question 12, a line with no answer
AnswerLines ==
    {<<"1", ".", "a">>, <<"2", ")", " ", "B">>, <<"1", "2", ":", "C">>, <<"x">>}

AnswerReplies == UNION {[1..n -> AnswerLines] : n \in 1..MaxAnswerLines}

RandomDigits == {0, 9}

InitAnswers ==
    /\ hBlocks \in UNION {[1..n -> AnswerBlockKinds] : n \in 1..MaxCachedBlocks}
    /\ hQuestions = <<>>
    /\ hResults = <<>>
    /\ hScored = {}
    /\ hPrompted = {}
    /\ hReply = <<>>
    /\ hFinal = <<>>
    /\ hStatus = 0
    /\ hPc = "extract"

\* the extraction call and the block parser
AnswersExtract ==
    /\ hPc = "extract"
    /\ \E script \in FetchScripts :
        LET r == callClaudeWithRetry(script, DefaultMaxRetries)
        IN  IF ResponseOk(r)
            THEN /\ hQuestions' = CachedQuestionsFrom(hBlocks, 1)
                 /\ hPc' = "search"
                 /\ UNCHANGED hStatus
            ELSE /\ hStatus' = 500
                 /\ hPc' = "done"
                 /\ UNCHANGED hQuestions
    /\ UNCHANGED <<hBlocks, hResults, hScored, hPrompted, hReply, hFinal>>
    /\ UNCHANGED notAnswers

\* searchForAnswers(questions, data.textChunks)
AnswersSearch ==
    /\ hPc = "search"
    /\ \E found \in [1..Len(hQuestions) -> 0..1] :
        /\ hResults' = searchForAnswers(hQuestions, found)
        /\ hScored' = {hResults'[i].question.number :
                          i \in {j \in 1..Len(hQuestions) : hResults'[j].scored}}
    /\ hPc' = "analyse"
    /\ UNCHANGED <<hBlocks, hQuestions, hPrompted, hReply, hFinal, hStatus>>
    /\ UNCHANGED notAnswers

\* the split, the analysis call for the questions that are not cached, the
\* parse of its reply and the final sort
AnswersAnalyse ==
    /\ hPc = "analyse"
    /\ LET cachedAnswers == CachedAnswersOf(hResults)
           questionsNeedingAnalysis == SelectSeq(hResults, NeedsAnalysis)
       IN  IF questionsNeedingAnalysis = <<>>
           THEN /\ hFinal' = SortByNumber(cachedAnswers)
                /\ hStatus' = 200
                /\ UNCHANGED <<hPrompted, hReply>>
           ELSE \E script \in FetchScripts, lines \in AnswerReplies,
                   randoms \in [1..Len(hBlocks) -> RandomDigits] :
                LET r == callClaudeWithRetry(script, DefaultMaxRetries)
                IN  /\ hPrompted' = {questionsNeedingAnalysis[i].question.number :
                                        i \in 1..Len(questionsNeedingAnalysis)}
                    /\ IF r.result # "response"
                       THEN /\ hStatus' = 500
                            /\ UNCHANGED <<hFinal, hReply>>
                       ELSE IF ResponseOk(r)
                       THEN /\ hReply' = lines
                            /\ hFinal' = SortByNumber(cachedAnswers \o
                                   AnalysedAnswers(questionsNeedingAnalysis, lines, randoms))
                            /\ hStatus' = 200
                       ELSE /\ hFinal' = SortByNumber(cachedAnswers)
                            /\ hStatus' = 200
                            /\ UNCHANGED hReply
    /\ hPc' = "done"
    /\ UNCHANGED <<hBlocks, hQuestions, hResults, hScored>>
    /\ UNCHANGED notAnswers

NextAnswers == AnswersExtract \/ AnswersSearch \/ AnswersAnalyse

IdleAnswers ==
    /\ hBlocks = <<>>
    /\ hQuestions = <<>>
    /\ hResults = <<>>
    /\ hScored = {}
    /\ hPrompted = {}
    /\ hReply = <<>>
    /\ hFinal = <<>>
    /\ hStatus = 0
    /\ hPc = "idle"

InitOptimizedCall ==
    InitOptimized /\ IdleAnalyze /\ IdleSearch /\ IdleDense /\ IdleLex /\ IdleRetry /\ IdleCache
        /\ IdleConfidence /\ IdleContext
        /\ IdleKeywords
        /\ IdleIndex
        /\ IdleAnswers

SpecOptimized == InitOptimizedCall /\ [][NextOptimized]_vars

InitKeywordsCall ==
    InitKeywords /\ IdleAnalyze /\ IdleSearch /\ IdleDense /\ IdleLex /\ IdleRetry /\ IdleCache
        /\ IdleConfidence /\ IdleContext /\ IdleOptimized
        /\ IdleIndex
        /\ IdleAnswers

SpecKeywords == InitKeywordsCall /\ [][NextKeywords]_vars

InitIndexCall ==
    InitIndex /\ IdleAnalyze /\ IdleSearch /\ IdleDense /\ IdleLex /\ IdleRetry /\ IdleCache
        /\ IdleConfidence /\ IdleContext /\ IdleOptimized /\ IdleKeywords
        /\ IdleAnswers

SpecIndex == InitIndexCall /\ [][NextIndex]_vars

InitAnswersRequest ==
    InitAnswers /\ IdleAnalyze /\ IdleSearch /\ IdleDense /\ IdleLex /\ IdleRetry /\ IdleCache
        /\ IdleConfidence /\ IdleContext /\ IdleOptimized /\ IdleKeywords /\ IdleIndex

SpecAnswers == InitAnswersRequest /\ [][NextAnswers]_vars

InitContextCall ==
    InitContext /\ IdleAnalyze /\ IdleSearch /\ IdleDense /\ IdleLex /\ IdleRetry /\ IdleCache
        /\ IdleConfidence
        /\ IdleOptimized
        /\ IdleKeywords
        /\ IdleIndex
        /\ IdleAnswers

SpecContext == InitContextCall /\ [][NextContext]_vars

InitDenseRequest ==
    InitDense /\ IdleAnalyze /\ IdleSearch /\ IdleLex /\ IdleRetry /\ IdleCache /\ IdleConfidence /\ IdleContext
        /\ IdleOptimized
        /\ IdleKeywords
        /\ IdleIndex
        /\ IdleAnswers

SpecDense == InitDenseRequest /\ [][NextDense]_vars

InitSearchCall ==
    InitSearch /\ IdleAnalyze /\ IdleDense /\ IdleLex /\ IdleRetry /\ IdleCache /\ IdleConfidence /\ IdleContext
        /\ IdleOptimized
        /\ IdleKeywords
        /\ IdleIndex
        /\ IdleAnswers

SpecSearch == InitSearchCall /\ [][NextSearch]_vars

NextAnalyze == Analyze

InitAnalyzeCall ==
    InitAnalyze /\ IdleSearch /\ IdleDense /\ IdleLex /\ IdleRetry /\ IdleCache /\ IdleConfidence /\ IdleContext
        /\ IdleOptimized
        /\ IdleKeywords
        /\ IdleIndex
        /\ IdleAnswers

SpecAnalyze == InitAnalyzeCall /\ [][NextAnalyze]_vars

InitLexRequest ==
    InitLex /\ IdleAnalyze /\ IdleSearch /\ IdleDense /\ IdleRetry /\ IdleCache /\ IdleConfidence /\ IdleContext
        /\ IdleOptimized
        /\ IdleKeywords
        /\ IdleIndex
        /\ IdleAnswers

SpecLex == InitLexRequest /\ [][NextLex]_vars

InitRetryCall ==
    InitRetry /\ IdleAnalyze /\ IdleSearch /\ IdleDense /\ IdleLex /\ IdleCache /\ IdleConfidence /\ IdleContext
        /\ IdleOptimized
        /\ IdleKeywords
        /\ IdleIndex
        /\ IdleAnswers

InitCacheProcess ==
    InitCache /\ IdleAnalyze /\ IdleSearch /\ IdleDense /\ IdleLex /\ IdleRetry /\ IdleConfidence /\ IdleContext
        /\ IdleOptimized
        /\ IdleKeywords
        /\ IdleIndex
        /\ IdleAnswers

SpecCache == InitCacheProcess /\ [][NextCache]_vars

InitConfidenceCall ==
    InitConfidence /\ IdleAnalyze /\ IdleSearch /\ IdleDense /\ IdleLex /\ IdleRetry /\ IdleCache /\ IdleContext
        /\ IdleOptimized
        /\ IdleKeywords
        /\ IdleIndex
        /\ IdleAnswers

SpecConfidence == InitConfidenceCall /\ [][NextConfidence]_vars

\* every fetch settles and every timer fires
SpecRetry == InitRetryCall /\ [][NextRetry]_vars /\ WF_vars(NextRetry)

(***************************************************************************)
(* C1: the hardened analyzeQuestionWithRAG returns one of A, B, C, D for   *)
(* every question, every context and every outcome of the completion       *)
(* request, and no exception leaves it.                                    *)
(***************************************************************************)
C1_AlwaysLetter ==
    (aPc = "returned" /\ aVariant \in HardenedVariants)
        => (aResult.answer \in Letters /\ ~aResult.threw)

\* a reply without any A-D letter was answered by the heuristic
C1_Witness ==
    /\ aPc = "returned"
    /\ aVariant = "enhanced"
    /\ aOutcome.kind = "text"
    /\ aOutcome.content = <<"x", ".">>
    /\ aResult.answer = "C"

(***************************************************************************)
(* C2 as stated: whenever the query returns a candidate that carries a     *)
(* non-empty text, the returned context is non-empty.                      *)
(***************************************************************************)
C2_AnyTextGivesContext ==
    (sPc = "returned" /\ sQuery = "ok" /\ \E i \in 1..Len(sMatches) : sMatches[i].text # <<>>)
        => sContext # <<>>

(***************************************************************************)
(* C2 amended: whenever a candidate with a score above 0.35, or one of     *)
(* the three best ranked candidates, carries a non-empty text, the         *)
(* returned context is non-empty, whatever the scores are.                 *)
(***************************************************************************)
C2_RankedTextGivesContext ==
    (sPc = "returned" /\ sQuery = "ok"
        /\ \E i \in 1..Len(sMatches) :
              /\ sMatches[i].text # <<>>
              /\ (sMatches[i].score > ScoreThreshold \/ i <= FallbackCount))
        => sContext # <<>>

\* every score is under the cutoff and the context comes from the third candidate alone
C2_Witness ==
    /\ sPc = "returned"
    /\ Len(sMatches) = 3
    /\ \A i \in 1..3 : sMatches[i].score <= ScoreThreshold
    /\ sMatches[1].text = <<>> /\ sMatches[2].text = <<>>
    /\ sContext = Passage("c3", 60)

(***************************************************************************)
(* C3: the hardened searchKnowledge never throws; when the embedding       *)
(* request throws or brings no vector, or the similarity query throws, it  *)
(* returns the empty context, and after a failed embedding step no         *)
(* similarity query is issued.                                             *)
(***************************************************************************)
C3_SearchNeverThrows ==
    /\ ~sThrown
    /\ (sPc = "returned" /\ (sEmbedding \in {"throw", "novector"} \/ sQuery = "throw"))
          => sContext = <<>>
    /\ sEmbedding \in {"throw", "novector"} => (sQueries = 0 /\ sPc = "returned")

\* the similarity query was issued and threw
C3_Witness == sPc = "returned" /\ sEmbedding = "ok" /\ sQuery = "throw" /\ sQueries = 1

CallsFor(i, what) == {k \in 1..Len(dLog) : dLog[k].q = i /\ dLog[k].call = what}

\* a question as the specification wants it: a text and at least two options
ValidShape(q) == ~q.isNull /\ q.text # <<>> /\ q.hasOptions /\ Len(q.options) >= 2

(***************************************************************************)
(* C4: a failure while one question of the loop is processed never aborts  *)
(* the batch: the request ends with a 200 response and the failing         *)
(* question is recorded with the answer B and the confidence 40.           *)
(***************************************************************************)
C4_FailureNeverAborts ==
    (dPc = "done" /\ dIdx >= 1) =>
        /\ dStatus = 200
        /\ \A i \in 1..Len(dQuestions) :
              LoopBodyThrows(dQuestions[i]) =>
                  \E j \in 1..Len(dResults) :
                      dResults[j].answer = "B" /\ dResults[j].confidence = 40

(***************************************************************************)
(* C6: when the embedding call throws for a question, the handler still    *)
(* issues one completion request for it, with the reasoning-only prompt,   *)
(* records an answer in A-D, and the request does not end in an error.     *)
(***************************************************************************)
C6_EmbeddingFailureStillAnswered ==
    \A k \in 1..Len(dLog) :
        (dLog[k].call = "embed" /\ dLog[k].arg = "throw" /\ (dIdx > dLog[k].q \/ dPc = "done")) =>
            /\ Cardinality(CallsFor(dLog[k].q, "complete")) = 1
            /\ \A c \in CallsFor(dLog[k].q, "complete") : dLog[c].arg = "reasoning"
            /\ CallsFor(dLog[k].q, "record") # {}
            /\ dStatus # 500

(***************************************************************************)
(* C7: with an empty corpus (here: no chunk in the vector index) no         *)
(* answer is produced and the request ends with an error.                  *)
(***************************************************************************)
C7_EmptyCorpusIsError ==
    (dIndexEmpty /\ dPc = "done" /\ dQuestions # <<>>) =>
        /\ dStatus = 500
        /\ dResults = <<>>

(***************************************************************************)
(* C8: a question reaches retrieval and answer selection if and only if    *)
(* it has a non-empty text and at least two options.                       *)
(***************************************************************************)
C8_OnlyValidQuestionsReachRetrieval ==
    \A i \in 1..Len(dQuestions) :
        /\ (CallsFor(i, "embed") # {} \/ CallsFor(i, "complete") # {}) => ValidShape(dQuestions[i])
        /\ (ValidShape(dQuestions[i]) /\ dIdx > i) => CallsFor(i, "embed") # {}

(***************************************************************************)
(* C9: the result of the robust handler holds at least one entry, and      *)
(* when every extracted question is invalid it is the single entry         *)
(* {number 1, answer B, confidence 30}.                                    *)
(***************************************************************************)
C9_AtLeastOneEntry ==
    (dVariant = "robust" /\ dPc = "done" /\ dIdx >= 1) =>
        /\ dStatus = 200
        /\ Len(dResults) >= 1
        /\ (\A i \in 1..Len(dQuestions) : ~ValidShape(dQuestions[i]))
              => dResults = <<Result(1, "B", 30)>>

(***************************************************************************)
(* C5: for every batch of valid questions and every reply of the language  *)
(* model the table holds exactly one row for each question, under that     *)
(* question's number.                                                      *)
(***************************************************************************)
RowsFor(n) == {i \in 1..Len(lRows) : lRows[i].num = n}

C5_OneRowPerQuestion ==
    (lPc = "done" /\ lBody = "table") =>
        \A i \in 1..Len(lQuestions) : Cardinality(RowsFor(lQuestions[i].number)) = 1

(***************************************************************************)
(* Replies of the completion request, as the claims about the answer       *)
(* describe them.                                                          *)
(***************************************************************************)
LettersAnyCase == Letters \cup {"a", "b", "c", "d"}

LetterPositions(text) == {i \in 1..Len(text) : text[i] \in LettersAnyCase}

\* the keys of the options whose text holds 'tutte le precedenti' or
\* 'nessuna delle precedenti'
MarkerKeys(question) ==
    {question.options[i].k : i \in
        {j \in 1..Len(question.options) :
            \/ includes(toLowerCase(question.options[j].v), toLowerCase(Tutte))
            \/ includes(toLowerCase(question.options[j].v), Nessuna)}}

\* the completion request was issued and answered with a text without any letter
NoLetterReply ==
    /\ aPc = "returned"
    /\ aVariant = "enhanced"
    /\ aResult.requests = 1
    /\ aOutcome.kind = "text"
    /\ trim(aOutcome.content) # <<>>
    /\ LetterPositions(aOutcome.content) = {}

(***************************************************************************)
(* C11: when the reply holds no A-D letter and an option's text holds      *)
(* 'tutte le precedenti' or 'nessuna delle precedenti', the function       *)
(* returns the key of an option that holds the phrase.                     *)
(***************************************************************************)
C11_MarkerKeyReturned ==
    (NoLetterReply /\ MarkerKeys(aQuestion) # {}) => aResult.answer \in MarkerKeys(aQuestion)

(***************************************************************************)
(* C12: a request that throws, a reply without content and a reply without *)
(* a letter all get the answer of the same ladder, the one the heuristic   *)
(* gives for the question.                                                 *)
(***************************************************************************)
LadderAnswers(question) == {Heuristic(question, rnd) : rnd \in BOOLEAN}

FailedReply ==
    /\ aPc = "returned"
    /\ aVariant = "enhanced"
    /\ aResult.requests = 1
    /\ \/ aOutcome.kind \in {"throw", "nocontent"}
       \/ aOutcome.kind = "text" /\ LetterPositions(aOutcome.content) = {}

C12_SameLadderOnEveryFailure ==
    FailedReply => aResult.answer \in LadderAnswers(aQuestion)

(***************************************************************************)
(* C20: when the reply holds a letter A-D in either case, the function     *)
(* returns the upper-case form of the first such letter of the text.       *)
(***************************************************************************)
FirstLetter(text) ==
    text[CHOOSE i \in LetterPositions(text) : \A j \in LetterPositions(text) : i <= j]

C20_FirstLetterUpperCase ==
    (/\ aPc = "returned"
     /\ aResult.requests = 1
     /\ aOutcome.kind = "text"
     /\ LetterPositions(aOutcome.content) # {})
        => aResult.answer = UpperChar(FirstLetter(aOutcome.content))

(***************************************************************************)
(* C13: a call of callClaudeWithRetry makes at most maxRetries attempts    *)
(* and ends, whatever its attempts meet; after a 429 on attempt i (from 0) *)
(* it waits min(2000 * 2^i, 15000) ms before it goes on.                   *)
(***************************************************************************)
C13_Bounded ==
    /\ Len(rState.outcomes) <= rMaxRetries
    /\ rState.i <= rMaxRetries
    /\ \A k \in 1..Len(rState.outcomes) :
         rState.outcomes[k] = "429" =>
            rState.waits[k] = (IF 2000 * (2 ^ (k - 1)) < 15000 THEN 2000 * (2 ^ (k - 1)) ELSE 15000)

C13_BoundedBackoff == [](rState.pc # "idle" => C13_Bounded) /\ <>(rState.pc = "done")

\* three rate-limited attempts of a call with the default maxRetries
C13_Witness ==
    /\ rMaxRetries = DefaultMaxRetries
    /\ rState.pc = "done"
    /\ rState.outcomes = <<"429", "429", "429">>
    /\ rState.waits = <<2000, 4000, 8000>>

(***************************************************************************)
(* C14: when every attempt of a call of callClaudeWithRetry meets HTTP 429 *)
(* the call ends by throwing, and the request that made it still ends with *)
(* the table of answers.                                                   *)
(***************************************************************************)
RateLimitedCalls ==
    {k \in 1..Len(lLog) : lLog[k].outcomes = [i \in 1..DefaultMaxRetries |-> "429"]}

C14_ExhaustionFailsAndFallsBack ==
    (lPc = "done" /\ RateLimitedCalls # {}) =>
        /\ \A k \in RateLimitedCalls : lLog[k].result = "throw"
        /\ lStatus = 200
        /\ lBody = "table"

(***************************************************************************)
(* C15: the dense handler works on one question at a time: the embedding   *)
(* request, the query and the completion request of a question are issued  *)
(* in that order, each after the one before it has settled, and nothing is *)
(* issued for a later question before the result of the current one is     *)
(* recorded; the results are recorded in the order of the questions.       *)
(***************************************************************************)
CallRank(call) ==
    CASE call = "extract" -> 0
      [] call = "embed" -> 1
      [] call = "query" -> 2
      [] call = "complete" -> 3
      [] OTHER -> 4

C15_OneQuestionAtATime ==
    \A a \in 1..Len(dLog) : \A b \in 1..Len(dLog) :
        a < b =>
            \/ dLog[a].q < dLog[b].q
            \/ dLog[a].q = dLog[b].q /\ CallRank(dLog[a].call) < CallRank(dLog[b].call)

\* a batch of two questions, each with its embedding, query, completion and record
C15_Witness ==
    /\ dPc = "done"
    /\ Len(dQuestions) = 2
    /\ \A i \in 1..2 : Cardinality({k \in 1..Len(dLog) : dLog[k].q = i}) = 4

(***************************************************************************)
(* C16: over all the requests of a process, interleaved at their awaits,   *)
(* the inverted index and the IDF table are each built at most once and a  *)
(* cache that has been set is never assigned again.                        *)
(***************************************************************************)
C16_BuiltAtMostOnce ==
    /\ cIndexBuilds <= 1
    /\ cIdfBuilds <= 1
    /\ cIndexWrites <= 1
    /\ cIdfWrites <= 1

(***************************************************************************)
(* C17 as stated: a context longer than 500 gives a confidence in          *)
(* [85,95], a length from 100 to 500 inclusive one in [70,85], a length    *)
(* below 100 one in [50,70]; every recorded confidence is in [0,100].      *)
(***************************************************************************)
C17_BandsFrom100 ==
    kPc = "recorded" =>
        /\ kConfidence \in 0..100
        /\ kPath = "computed" =>
            /\ StrLen(kContext) > 500 => kConfidence \in 85..95
            /\ (StrLen(kContext) >= 100 /\ StrLen(kContext) <= 500) => kConfidence \in 70..85
            /\ StrLen(kContext) < 100 => kConfidence \in 50..70

(***************************************************************************)
(* C17, amended: a context longer than 500 gives a confidence in [85,94],  *)
(* a length above 100 and up to 500 one in [70,84], a length up to 100     *)
(* one in [50,69]; the catch block records 40 and the placeholder entry    *)
(* 30; every recorded confidence is in [0,100].                            *)
(***************************************************************************)
C17_BandsAbove100 ==
    kPc = "recorded" =>
        /\ kConfidence \in 0..100
        /\ kPath = "computed" =>
            /\ StrLen(kContext) > 500 => kConfidence \in 85..94
            /\ (StrLen(kContext) > 100 /\ StrLen(kContext) <= 500) => kConfidence \in 70..84
            /\ StrLen(kContext) <= 100 => kConfidence \in 50..69
        /\ kPath = "error" => kConfidence = 40
        /\ kPath = "placeholder" => kConfidence = 30

\* a context of exactly 100 characters recorded in the low band
C17_Witness ==
    /\ kPc = "recorded"
    /\ kPath = "computed"
    /\ StrLen(kContext) = 100
    /\ kConfidence = 69

(***************************************************************************)
(* C18: in the lexical handler the row of a question whose matches were    *)
(* borrowed from its neighbours (inferredFromContext) shows a confidence   *)
(* of the low band [50,70].                                                *)
(***************************************************************************)
\* the rows whose number is the number of a question with borrowed matches
InferredRows ==
    {i \in 1..Len(lRows) :
        /\ lRows[i].num \in 1..Len(lSearchResults)
        /\ lSearchResults[lRows[i].num].question.number = lRows[i].num
        /\ lSearchResults[lRows[i].num].inferredFromContext}

C18_InferredInLowBand ==
    \A i \in InferredRows : lRows[i].acc \in 50..70

(***************************************************************************)
(* C19: the context string placed in an answer prompt never exceeds 2000   *)
(* characters, for every corpus, every number of questions and every       *)
(* number of matches, and every passage the lexical handler extracts from  *)
(* a chunk is at most 250 characters long.                                 *)
(***************************************************************************)
C19_ContextWithinBudget ==
    xPc = "prompted" =>
        /\ xContext <= LexContextBudget
        /\ \A p \in xPassages : p <= MaxPassageLength

\* the matches the search itself found for question i
DirectMatches(i) == DirectResult(oQuestions[i], buildInvertedIndex(oChunks)).matches

\* the positions at most contextWindow away from i
Neighbours(i) ==
    {j \in 1..Len(oQuestions) : j # i /\ j - i <= CONFIG.contextWindow
                                      /\ i - j <= CONFIG.contextWindow}

(***************************************************************************)
(* C21: after enhanceWithNearbyContext, every match of a question whose    *)
(* own search found nothing was retrieved directly for a question at most  *)
(* 2 positions away (no borrowing through a neighbour that only holds      *)
(* borrowed matches), and a result is tagged inferredFromContext exactly   *)
(* when its matches were borrowed.                                         *)
(***************************************************************************)
C21_BorrowedFromWindow ==
    oCalls # <<>> =>
        \A i \in 1..Len(oQuestions) :
            LET result == oCalls[1][i]
            IN  /\ DirectMatches(i) # <<>> =>
                       result.matches = DirectMatches(i) /\ ~result.inferredFromContext
                /\ DirectMatches(i) = <<>> =>
                       /\ \A k \in 1..Len(result.matches) :
                              \E j \in Neighbours(i) : \E d \in 1..Len(DirectMatches(j)) :
                                  DirectMatches(j)[d] = result.matches[k]
                       /\ result.inferredFromContext <=> result.matches # <<>>

\* the scores of a match list never rise from one match to the next
Descending(matches) ==
    \A i \in 1..Len(matches) - 1 : matches[i].score >= matches[i + 1].score

(***************************************************************************)
(* C22: every match the lexical retriever returns for a question has a     *)
(* score of at least CONFIG.minScoreThreshold, the matches are in          *)
(* descending score order and there are at most CONFIG.chunksPerQuestion   *)
(* of them; a question for which no chunk reaches the threshold has an     *)
(* empty match list.                                                       *)
(***************************************************************************)
C22_MatchesClearThreshold ==
    oCalls # <<>> =>
        \A i \in 1..Len(oQuestions) :
            LET matches == oCalls[1][i].matches
            IN  /\ \A k \in 1..Len(matches) : matches[k].score >= CONFIG.minScoreThreshold
                /\ Descending(matches)
                /\ Len(matches) <= CONFIG.chunksPerQuestion

(***************************************************************************)
(* C23: extractKeywordsFromQuestion returns at most 8 keywords, all        *)
(* lower-case, without duplicates, none of them a stop word and none       *)
(* shorter than 4 characters, whether a keyword comes from the question    *)
(* text, from an option or from the synonym table.                         *)
(***************************************************************************)
C23_KeywordsFiltered ==
    gPc = "returned" =>
        /\ Len(gKeywords) <= CONFIG.maxKeywordsPerQuestion
        /\ \A i \in 1..Len(gKeywords) :
              /\ PlainWord(gKeywords[i]) = gKeywords[i]
              /\ gKeywords[i] \notin (IF gVariant = "enhanced" THEN StopWords ELSE CachedStopWords)
              /\ Len(gKeywords[i]) >= 4
              /\ \A j \in 1..Len(gKeywords) : gKeywords[j] = gKeywords[i] => j = i

\* a call leaves the corpus, the index and the IDF table as they were
SearchKeepsData == oChunks' = oChunks /\ oIndex' = oIndex /\ oIdf' = oIdf

LongContext == aContext.isString /\ StrLen(aContext.str) > MinContextLength

\* the prompt follows the context length and one completion request was issued
PromptFollowsContext ==
    /\ aResult.prompt.kind = (IF LongContext THEN "grounded" ELSE "reasoning")
    /\ aResult.requests = 1

Tokens(i) == {PlainWord(iChunks[i][j]) : j \in 1..Len(iChunks[i])}

\* the tokens of chunk i that are longer than 3 characters
LongTokens(i) == {w \in Tokens(i) : Len(w) > 3}

\* the keywords of the query found in a set of tokens
KeywordsIn(tokens) == {k \in 1..Len(iKeywords) : iKeywords[k] \in tokens}

\* the result is the (at most) SearchLimit best chunks by the given scores, best first,
\* each with its score, and no chunk of score 0
RankedBy(score) ==
    LET hit == {i \in 1..Len(iChunks) : score[i] > 0}
        found == {iFound[k].chunk : k \in 1..Len(iFound)}
    IN  /\ Len(iFound) = Min(SearchLimit, Cardinality(hit))
        /\ Cardinality(found) = Len(iFound)
        /\ found \subseteq hit
        /\ \A k \in 1..Len(iFound) : iFound[k].score = score[iFound[k].chunk]
        /\ \A k \in 1..Len(iFound) - 1 : iFound[k].score >= iFound[k + 1].score
        /\ \A i \in hit \ found : \A k \in 1..Len(iFound) : score[i] <= iFound[k].score

CachedPositions ==
    IF cSearchIndexCache.built
    THEN UNION {cSearchIndexCache.value[w] : w \in DOMAIN cSearchIndexCache.value}
    ELSE {}

(***************************************************************************)
(* C27: in the lexical handler every chunk position stored in the cached   *)
(* inverted index is a valid position of the chunk list that the request   *)
(* about to search holds, for every interleaving of concurrent requests    *)
(* and every outcome of the corpus downloads.                              *)
(***************************************************************************)
C27_IndexFitsCorpus ==
    \A r \in Requests :
        cPc[r] = "ready" => CachedPositions \subseteq 1..Len(cData[r].textChunks)

\* what the attempts made so far say about the state of the call
AttemptsAccounted ==
    LET n == Len(rState.outcomes)
    IN  /\ n <= rMaxRetries
        /\ \A k \in 1..n :
              /\ k < n => rState.outcomes[k] \in {"429", "error"}
              /\ (rState.outcomes[k] = "error" /\ k < rMaxRetries) =>
                     /\ rState.waits[k] = 2000
                     /\ ~(rState.pc = "done" /\ k = n)
              /\ (rState.outcomes[k] = "error" /\ k = rMaxRetries) =>
                     rState.pc = "done" /\ rState.result = "throw"
              /\ rState.outcomes[k] \in {"200", "500"} =>
                     /\ k = n
                     /\ rState.pc = "done"
                     /\ rState.result = "response"
                     /\ rState.status = rState.outcomes[k]
        /\ rState.pc = "fetch" => rState.i = n /\ n < rMaxRetries
        /\ rState.pc = "wait" => rState.i = n - 1
        /\ rState.result = "throw" => rState.outcomes[n] = "error" /\ n = rMaxRetries
        /\ rState.result = "undefined" => rState.outcomes[n] = "429" /\ n = rMaxRetries

(***************************************************************************)
(* C28: in callClaudeWithRetry a network error reaches the caller only     *)
(* when it happens on the last allowed attempt; on an earlier attempt it   *)
(* is swallowed and followed, after 2000 ms, by one more attempt; network  *)
(* errors and 429 responses use up the same attempts; the first response   *)
(* whose status is not 429 is returned as it is, with no further attempt.  *)
(***************************************************************************)
C28_ErrorsShareBudget == rState.pc # "idle" => AttemptsAccounted

\* an error swallowed, a 429, and an error on the third and last attempt
C28_Witness ==
    /\ rMaxRetries = DefaultMaxRetries
    /\ rState.pc = "done"
    /\ rState.outcomes = <<"error", "429", "error">>
    /\ rState.waits = <<2000, 4000, 0>>
    /\ rState.result = "throw"

\* the values the row of a question may show, from that question's retrieval result
BandOf(result) ==
    IF result.matches # <<>> /\ result.matches[1].score > 30 THEN 90..94
    ELSE IF result.inferredFromContext THEN 75..84
    ELSE 70..79

(***************************************************************************)
(* C29: in the lexical handler the confidence shown in the row of question *)
(* number n is computed from the retrieval result of the question whose    *)
(* number is n, also when blocks were skipped and the numbers of the kept  *)
(* questions have gaps, for every numbered line of the reply.              *)
(***************************************************************************)
C29_RowUsesOwnResult ==
    (lPc = "done" /\ lBody = "table") =>
        \A i \in 1..Len(lRows) : \A j \in 1..Len(lSearchResults) :
            lSearchResults[j].question.number = lRows[i].num =>
                lRows[i].acc \in BandOf(lSearchResults[j])

\* the first entry of the table, in table order, that the question matches
FirstHit(question) ==
    commonAnswersCache[CHOOSE e \in CacheHits(question) : \A f \in CacheHits(question) : e <= f]

RowsOf(number) == {i \in 1..Len(hFinal) : hFinal[i].number = number}

\* C30: in the cached-answer lexical variant, when the request is answered, a
\* question whose normalized text matches a pattern of the common-answers
\* table has exactly one row, with the answer and the confidence of the first
\* matching entry in table order, was not scored against the corpus and was
\* not in the analysis prompt; every other question was scored and has a row
\* only if it was in the prompt and a line of the model's reply answers it;
\* the rows are in ascending question number.
C30_CachedAnswersBypassModel ==
    (hPc = "done" /\ hStatus = 200) =>
        /\ \A q \in 1..Len(hQuestions) :
            LET question == hQuestions[q]
                n == question.number
            IN  IF CacheHits(question) # {}
                THEN /\ Cardinality(RowsOf(n)) = 1
                     /\ \A i \in RowsOf(n) :
                            /\ hFinal[i].answer = FirstHit(question).answer
                            /\ hFinal[i].confidence = FirstHit(question).confidence
                     /\ n \notin hScored
                     /\ n \notin hPrompted
                ELSE /\ n \in hScored
                     /\ Cardinality(RowsOf(n)) <= 1
                     /\ \A i \in RowsOf(n) :
                            /\ n \in hPrompted
                            /\ hFinal[i].answer \in Letters
                            /\ \E l \in 1..Len(hReply) : AnswerTest(hReply[l], n)
        /\ \A i \in 1..Len(hFinal) : \E q \in 1..Len(hQuestions) : hQuestions[q].number = hFinal[i].number
        /\ \A i \in 1..(Len(hFinal) - 1) : hFinal[i].number < hFinal[i + 1].number

\* a request with a plain question and a question matching two entries, both answered
C30_Witness ==
    /\ hPc = "done"
    /\ hStatus = 200
    /\ hBlocks = <<"plain", "both">>
    /\ hPrompted = {1}
    /\ hFinal = <<[number |-> 1, answer |-> "A", confidence |-> 94],
                  [number |-> 2, answer |-> "D", confidence |-> 90]>>

====
